---- MODULE Spec2Model ----
(***************************************************************************)
(* The ReACT agent execution engine of aidant-monobots, modelled from      *)
(* src/agents/research-agent.ts: the completion client callOpenRouter      *)
(* (retry and backoff), the response parsing done with three regular       *)
(* expressions, tool dispatch, the fallback answers and the step-limited   *)
(* loop of runAgent.                                                       *)
(*                                                                         *)
(* A string is a sequence of tokens; the string it stands for is the       *)
(* concatenation of its tokens.  The markers "Answer:", "Action:" and      *)
(* "Thought:" and the fixed texts of the program are single tokens, every  *)
(* other token is one character or one tool name.                          *)
(*                                                                         *)
(* One action of the model is the code that runs between two await points  *)
(* of a run: JavaScript runs it to completion without interleaving.        *)
(***************************************************************************)
EXTENDS Integers, Sequences, FiniteSets, Bags, TLC

\* ===== CONFIGURATION (research-agent.ts 61-67) =====
MAX_STEPS == 10
MAX_RETRIES == 3
RETRY_DELAY_MS == 1000

\* ===== Bounds of the model =====
\* Number of deviations of one run from its base input.  A deviation is a
\* reply or a tool outcome other than the base one, or a provider failure of
\* a kind the current call has not seen yet (repeated failures of one kind in
\* one call are one deviation).
MaxDeviations == 1

\* The same number for each of the runs of the concurrent specification.
ConcDeviations == 0

\* The same number for the run a request to the server starts.
ServerDeviations == 1

\* ===== Strings =====
EmptyStr == << >>

\* The characters JavaScript's \s and String.prototype.trim treat as white space
\* (those of the token alphabet).
IsSpace(c) == c \in {" ", "\n"}

Min(a, b) == IF a < b THEN a ELSE b

\* Index of the first position >= from of s that holds a token in toks, or
\* Len(s) + 1 when there is none.
FirstIn(s, toks, from) ==
  LET hits == {i \in from..Len(s) : s[i] \in toks}
  IN IF hits = {} THEN Len(s) + 1
     ELSE CHOOSE i \in hits : \A j \in hits : i <= j

\* Index of the first position >= from of s that holds no white space, or
\* Len(s) + 1: where a greedy \s* started at from stops.
SkipSpace(s, from) ==
  LET hits == {i \in from..Len(s) : ~IsSpace(s[i])}
  IN IF hits = {} THEN Len(s) + 1
     ELSE CHOOSE i \in hits : \A j \in hits : i <= j

\* String.prototype.trim: white space removed from both ends.
Trim(s) ==
  LET kept == {i \in 1..Len(s) : ~IsSpace(s[i])}
  IN IF kept = {} THEN EmptyStr
     ELSE SubSeq(s, CHOOSE i \in kept : \A j \in kept : i <= j,
                    CHOOSE i \in kept : \A j \in kept : j <= i)

\* String.prototype.toLowerCase on one token.
LowerTok(c) ==
  CASE c = "PerplexitySonar" -> "perplexitysonar"
    [] c = "PERPLEXITYSONAR" -> "perplexitysonar"
    [] c = "WebSearch" -> "websearch"
    [] c = "GetPageContent" -> "getpagecontent"
    [] c = "QuerySelector" -> "queryselector"
    [] c = "ExtractElements" -> "extractelements"
    [] c = "AnalyzePage" -> "analyzepage"
    [] c = "Answer:" -> "answer:"
    [] c = "Action:" -> "action:"
    [] c = "Thought:" -> "thought:"
    [] OTHER -> c

ToLowerCase(s) == [i \in 1..Len(s) |-> LowerTok(s[i])]

\* ===== Response parsing =====
\* Mutant: the pattern with the m flag, where $ also matches before a line
\* break, so that group 1 stops at the end of the line.
AnswerMatchFirstLine(reply) ==
  LET a == FirstIn(reply, {"Answer:"}, 1)
      from == SkipSpace(reply, a + 1)
  IN IF a > Len(reply) THEN [found |-> FALSE, g1 |-> EmptyStr]
     ELSE [found |-> TRUE,
           g1 |-> SubSeq(reply, from, FirstIn(reply, {"\n"}, from) - 1)]

\* assistantReply.match(/Answer:\s*([\s\S]*?)$/): the leftmost "Answer:", then
\* white space, then (lazily, up to the end of the input) group 1.
AnswerMatch(reply) ==
  LET a == FirstIn(reply, {"Answer:"}, 1)
  IN IF a > Len(reply) THEN [found |-> FALSE, g1 |-> EmptyStr]
     ELSE [found |-> TRUE,
           g1 |-> SubSeq(reply, SkipSpace(reply, a + 1), Len(reply))]

\* assistantReply.match(/Thought:\s*([\s\S]*?)(?=\n\n|$)/): the leftmost
\* "Thought:", then white space, then group 1 up to the first blank line
\* ("\n\n") or the end of the input.
ThoughtMatch(reply) ==
  LET t == FirstIn(reply, {"Thought:"}, 1)
      from == SkipSpace(reply, t + 1)
      blank == {i \in from..(Len(reply) - 1) :
                   reply[i] = "\n" /\ reply[i + 1] = "\n"}
      stop == IF blank = {} THEN Len(reply) + 1
              ELSE CHOOSE i \in blank : \A j \in blank : i <= j
  IN IF t > Len(reply) THEN [found |-> FALSE, g1 |-> EmptyStr]
     ELSE [found |-> TRUE, g1 |-> SubSeq(reply, from, stop - 1)]

\* One attempt of /Action:\s*([^\[]+)\[([^\]]+)\]/ at the "Action:" at index a:
\* group 1 cannot hold "[", so the "[" of the pattern is the first one after a
\* and at least one character lies between; group 2 cannot hold "]", so the "]"
\* of the pattern is the first one after that "[" and at least one character
\* lies between.
ActionAt(reply, a) ==
  LET open == FirstIn(reply, {"["}, a + 1)
      close == FirstIn(reply, {"]"}, open + 1)
  IN /\ open <= Len(reply)
     /\ open > a + 1
     /\ close <= Len(reply)
     /\ close > open + 1

\* assistantReply.match(/Action:\s*([^\[]+)\[([^\]]+)\]/): the leftmost
\* "Action:" at which the pattern matches.  \s* is greedy but gives back its
\* last character when nothing else is left for group 1.
ActionMatch(reply) ==
  LET starts == {a \in 1..Len(reply) : reply[a] = "Action:" /\ ActionAt(reply, a)}
      a == CHOOSE i \in starts : \A j \in starts : i <= j
      open == FirstIn(reply, {"["}, a + 1)
      close == FirstIn(reply, {"]"}, open + 1)
  IN IF starts = {} THEN [found |-> FALSE, g1 |-> EmptyStr, g2 |-> EmptyStr]
     ELSE [found |-> TRUE,
           g1 |-> SubSeq(reply, Min(SkipSpace(reply, a + 1), open - 1), open - 1),
           g2 |-> SubSeq(reply, open + 1, close - 1)]

\* ===== Texts of the program =====
SystemPrompt == <<"<systemPrompt>">>
ObservationPrefix == <<"Based on research, here's what I found:\n\n">>
PartialPrefix == <<"Based on partial research, here's what I found:\n\n">>
StepLimitMessage == <<"Agent did not produce a final answer within the step limit.">>
EmptyReplyMessage == <<"Empty response from assistant and no fallback available">>
TransportMessage == <<"<fetch failed>">>

\* `API error (${response.status}): ${errorText}`
ApiErrorMessage(status) == <<"API error (", ToString(status), "): ", "<errorText>">>

Returned(text) == [kind |-> "return", value |-> text]
Thrown(message) == [kind |-> "throw", value |-> message]
NoOutcome == [kind |-> "none", value |-> EmptyStr]

\* ===== Tools =====
\* The tools array: one registered tool.
Tools == {<<"PerplexitySonar">>}

\* tools.find((t) => t.name.toLowerCase() === toolName.toLowerCase())
FindTool(toolName) ==
  LET hits == {t \in Tools : ToLowerCase(t) = ToLowerCase(toolName)}
  IN IF hits = {} THEN [found |-> FALSE, name |-> EmptyStr]
     ELSE [found |-> TRUE, name |-> CHOOSE t \in hits : TRUE]

\* Mutant: the observation names the tool in lower case.
NotFoundObservationLowerCase(toolName) ==
  <<"Tool \"">> \o ToLowerCase(toolName) \o <<"\" not found">>

\* observation = `Tool "${toolName}" not found`
NotFoundObservation(toolName) == <<"Tool \"">> \o toolName \o <<"\" not found">>

\* Mutant: the Error itself is interpolated, `Error: ${err}`.
ErrorObservationOfError(message) == <<"Error: ", "Error: ">> \o message

\* observation = `Error: ${(err as Error).message}`
ErrorObservation(message) == <<"Error: ">> \o message

\* Mutant: the observation is appended as a user message.
ObservationMessageAsUser(observation) ==
  [role |-> "user", content |-> <<"Observation: ">> \o observation]

\* { role: "system", content: `Observation: ${observation}` }
ObservationMessage(observation) ==
  [role |-> "system", content |-> <<"Observation: ">> \o observation]

\* ===== Completion client: retry policy of callOpenRouter =====
\* response.status === 429 || response.status >= 500
IsRetryable(status) == status = 429 \/ status >= 500

\* Mutant: the delay the log line announces, `Retrying in ${RETRY_DELAY_MS}ms`.
RetryDelayConstant(n) == RETRY_DELAY_MS

\* setTimeout(resolve, RETRY_DELAY_MS * retries)
RetryDelay(n) == RETRY_DELAY_MS * n

\* Mutant: the catch block allows one retry more.
OnCatchOneMore(n, err) ==
  IF n + 1 <= MAX_RETRIES + 1
  THEN [retries |-> n + 1, thrown |-> FALSE, delay |-> RetryDelay(n + 1), err |-> err]
  ELSE [retries |-> n + 1, thrown |-> TRUE, delay |-> 0, err |-> err]

\* The catch block of callOpenRouter: count the failure, then wait and go
\* round the loop again, or rethrow.
OnCatch(n, err) ==
  IF n + 1 <= MAX_RETRIES
  THEN [retries |-> n + 1, thrown |-> FALSE, delay |-> RetryDelay(n + 1), err |-> err]
  ELSE [retries |-> n + 1, thrown |-> TRUE, delay |-> 0, err |-> err]

\* The !response.ok branch of callOpenRouter.  The Error it throws is thrown
\* inside the try block, so the catch block of the same function receives it.
OnHttpError(n, status) ==
  IF IsRetryable(status) /\ n + 1 <= MAX_RETRIES
  THEN [retries |-> n + 1, thrown |-> FALSE, delay |-> RetryDelay(n + 1),
        err |-> ApiErrorMessage(status)]
  ELSE OnCatch(IF IsRetryable(status) THEN n + 1 ELSE n, ApiErrorMessage(status))

\* ===== Fallback answers of runAgent, one per decision point =====
\* Mutant: an empty reply without fallback text is returned as it is.
FallbackOnEmptyReplyReturned(lastObs, partial) ==
  IF Len(lastObs) > 0 THEN Returned(ObservationPrefix \o lastObs)
  ELSE IF Len(partial) > 0 THEN Returned(PartialPrefix \o partial)
  ELSE Returned(EmptyStr)

\* Empty reply (lines 274-289); the Error it throws is caught at line 386.
FallbackOnEmptyReply(lastObs, partial) ==
  IF Len(lastObs) > 0 THEN Returned(ObservationPrefix \o lastObs)
  ELSE IF Len(partial) > 0 THEN Returned(PartialPrefix \o partial)
  ELSE Thrown(EmptyReplyMessage)

\* Mutant: the empty answer is accepted as the final answer.
FallbackOnEmptyAnswerAccepted(lastObs, partial) == Returned(EmptyStr)

\* Empty answer (lines 308-319): no else branch, the code falls through.
FallbackOnEmptyAnswer(lastObs, partial) ==
  IF Len(lastObs) > 0 THEN Returned(ObservationPrefix \o lastObs)
  ELSE IF Len(partial) > 0 THEN Returned(PartialPrefix \o partial)
  ELSE NoOutcome

\* Mutant: the partial answer is tried before the last observation.
FallbackOnNoActionPartialFirst(lastObs, partial, reply) ==
  IF Len(partial) > 0 THEN Returned(PartialPrefix \o partial)
  ELSE IF Len(lastObs) > 0 THEN Returned(ObservationPrefix \o lastObs)
  ELSE Returned(Trim(reply))

\* Mutant: without fallback text the reply is returned as it came.
FallbackOnNoActionUntrimmed(lastObs, partial, reply) ==
  IF Len(lastObs) > 0 THEN Returned(ObservationPrefix \o lastObs)
  ELSE IF Len(partial) > 0 THEN Returned(PartialPrefix \o partial)
  ELSE Returned(reply)

\* No Action and no Answer (lines 372-385).
FallbackOnNoAction(lastObs, partial, reply) ==
  IF Len(lastObs) > 0 THEN Returned(ObservationPrefix \o lastObs)
  ELSE IF Len(partial) > 0 THEN Returned(PartialPrefix \o partial)
  ELSE Returned(Trim(reply))

\* Mutant: the catch block of a step rethrows whatever it caught.
FallbackOnErrorRethrows(lastObs, partial, err) == Thrown(err)

\* The catch block of a step (lines 386-402).
FallbackOnError(lastObs, partial, err) ==
  IF Len(lastObs) > 0 THEN Returned(ObservationPrefix \o lastObs)
  ELSE IF Len(partial) > 0 THEN Returned(PartialPrefix \o partial)
  ELSE Thrown(err)

\* Mutant: nothing to fall back on gives an empty answer.
FallbackOnStepLimitEmpty(lastObs, partial) ==
  IF Len(lastObs) > 0 THEN Returned(ObservationPrefix \o lastObs)
  ELSE Returned(partial)

\* After the loop (lines 405-421).
FallbackOnStepLimit(lastObs, partial) ==
  IF Len(lastObs) > 0 THEN Returned(ObservationPrefix \o lastObs)
  ELSE IF Len(partial) > 0 THEN Returned(PartialPrefix \o partial)
  ELSE Thrown(StepLimitMessage)

\* ===== One reply, as the body of the loop of runAgent handles it =====
\* Mutant: the test without trim().
IsEmptyReplyNoTrim(reply) == Len(reply) = 0

\* !assistantReply || assistantReply.trim().length === 0
IsEmptyReply(reply) == Len(Trim(reply)) = 0

\* Mutant: the Thought of the reply replaces what was recorded before.
RecordThoughtReplaces(partial, reply) ==
  LET tm == ThoughtMatch(reply)
  IN IF tm.found /\ Len(Trim(tm.g1)) > 0
     THEN <<"\n", "\n">> \o Trim(tm.g1)
     ELSE partial

\* partialAnswer after the Thought section of the reply has been looked for.
RecordThought(partial, reply) ==
  LET tm == ThoughtMatch(reply)
  IN IF tm.found /\ Len(Trim(tm.g1)) > 0
     THEN partial \o <<"\n", "\n">> \o Trim(tm.g1)
     ELSE partial

\* The tool input handed to tool.run: actionMatch[2].trim()
ToolInputOf(g2) == Trim(g2)

\* Mutant: the Action pattern is tried before the Answer pattern.
ProcessReplyActionFirst(reply, lastObs, partial) ==
  LET am == AnswerMatch(reply)
      answer == Trim(am.g1)
      onEmpty == FallbackOnEmptyReply(lastObs, partial)
      onEmptyAnswer == FallbackOnEmptyAnswer(lastObs, partial)
      partial2 == RecordThought(partial, reply)
      cm == ActionMatch(reply)
      toolName == Trim(cm.g1)
      tool == FindTool(toolName)
      base == [kind |-> "return", value |-> EmptyStr, pushed |-> TRUE,
               partial |-> partial, toolName |-> EmptyStr, toolInput |-> EmptyStr]
  IN IF IsEmptyReply(reply)
     THEN IF onEmpty.kind = "return"
          THEN [base EXCEPT !.value = onEmpty.value, !.pushed = FALSE]
          ELSE LET c == FallbackOnError(lastObs, partial, onEmpty.value)
               IN [base EXCEPT !.kind = c.kind, !.value = c.value, !.pushed = FALSE]
     ELSE IF cm.found
     THEN IF tool.found
          THEN [base EXCEPT !.kind = "invoke", !.partial = partial2,
                            !.toolName = tool.name, !.toolInput = ToolInputOf(cm.g2)]
          ELSE [base EXCEPT !.kind = "notfound", !.partial = partial2,
                            !.toolName = toolName,
                            !.value = NotFoundObservation(toolName)]
     ELSE IF am.found /\ Len(answer) > 0
     THEN [base EXCEPT !.value = answer]
     ELSE IF am.found /\ onEmptyAnswer.kind = "return"
     THEN [base EXCEPT !.value = onEmptyAnswer.value]
     ELSE [base EXCEPT !.value = FallbackOnNoAction(lastObs, partial2, reply).value,
                       !.partial = partial2]

\* What the loop body does with one reply, up to its next await, return or
\* throw.  kind: "return" | "throw" (the run ends), "invoke" (tool.run is
\* awaited), "notfound" (the observation is appended, the loop continues).
\* pushed: whether the reply was appended to messages.
ProcessReply(reply, lastObs, partial) ==
  LET am == AnswerMatch(reply)
      answer == Trim(am.g1)
      onEmpty == FallbackOnEmptyReply(lastObs, partial)
      onEmptyAnswer == FallbackOnEmptyAnswer(lastObs, partial)
      partial2 == RecordThought(partial, reply)
      cm == ActionMatch(reply)
      toolName == Trim(cm.g1)
      tool == FindTool(toolName)
      base == [kind |-> "return", value |-> EmptyStr, pushed |-> TRUE,
               partial |-> partial, toolName |-> EmptyStr, toolInput |-> EmptyStr]
  IN IF IsEmptyReply(reply)
     THEN IF onEmpty.kind = "return"
          THEN [base EXCEPT !.value = onEmpty.value, !.pushed = FALSE]
          ELSE LET c == FallbackOnError(lastObs, partial, onEmpty.value)
               IN [base EXCEPT !.kind = c.kind, !.value = c.value, !.pushed = FALSE]
     ELSE IF am.found /\ Len(answer) > 0
     THEN [base EXCEPT !.value = answer]
     ELSE IF am.found /\ onEmptyAnswer.kind = "return"
     THEN [base EXCEPT !.value = onEmptyAnswer.value]
     ELSE IF cm.found
     THEN IF tool.found
          THEN [base EXCEPT !.kind = "invoke", !.partial = partial2,
                            !.toolName = tool.name, !.toolInput = ToolInputOf(cm.g2)]
          ELSE [base EXCEPT !.kind = "notfound", !.partial = partial2,
                            !.toolName = toolName,
                            !.value = NotFoundObservation(toolName)]
     ELSE [base EXCEPT !.value = FallbackOnNoAction(lastObs, partial2, reply).value,
                       !.partial = partial2]

\* ===== HTTP server: the handler given to serve (startWebServer) =====
\* A header that may be absent: what req.headers.get returns (null or a string).
NoHeader == [present |-> FALSE, value |-> EmptyStr]
Header(value) == [present |-> TRUE, value |-> value]

\* Mutant: the header value is taken as the key when it has no "Bearer " prefix.
ApiKeyOfRawHeader(authHeader) ==
  IF authHeader.present /\ Len(authHeader.value) > 0 /\ Head(authHeader.value) = "Bearer "
  THEN Header(Tail(authHeader.value))
  ELSE authHeader

\* authHeader?.startsWith("Bearer ") ? authHeader.substring(7) : null
ApiKeyOf(authHeader) ==
  IF authHeader.present /\ Len(authHeader.value) > 0 /\ Head(authHeader.value) = "Bearer "
  THEN Header(Tail(authHeader.value))
  ELSE NoHeader

\* The API key check passes: SERVER_API_KEY is falsy, or apiKey === SERVER_API_KEY.
Authorized(key, authHeader) ==
  \/ Len(key) = 0
  \/ ApiKeyOf(authHeader).present /\ ApiKeyOf(authHeader).value = key

\* JSON values of the fields the handler reads.
Absent == [type |-> "undefined", text |-> EmptyStr]
JNull == [type |-> "null", text |-> EmptyStr]
JString(text) == [type |-> "string", text |-> text]
JNumber(digits) == [type |-> "number", text |-> digits]

\* Request bodies: text that is not JSON, the JSON value null, a JSON number,
\* and JSON objects with their query and question members.
NotJson == [json |-> "invalid", query |-> Absent, question |-> Absent]
JsonNull == [json |-> "null", query |-> Absent, question |-> Absent]
JsonNumber == [json |-> "number", query |-> Absent, question |-> Absent]
JsonObject(query, question) == [json |-> "object", query |-> query, question |-> question]

\* await req.json() rejects, or reading data.query throws (data is null): the
\* catch block at line 583 runs.
JsonFails(body) == body.json \in {"invalid", "null"}

\* Mutant: || in place of ??, so that an empty query gives way to question.
QueryOfOr(body) ==
  IF body.query.type \in {"undefined", "null"}
     \/ (body.query.type = "string" /\ Len(body.query.text) = 0)
     \/ (body.query.type = "number" /\ body.query.text = <<"0">>)
  THEN body.question ELSE body.query

\* query = data.query ?? data.question
QueryOf(body) ==
  IF body.query.type \in {"undefined", "null"} THEN body.question ELSE body.query

\* !(!query || typeof query !== "string")
IsUsableQuery(value) == value.type = "string" /\ Len(value.text) > 0

\* new Response(JSON.stringify(body), { status }): status 200 when none is given.
Response(status, body) == [status |-> status, body |-> body]
NoRequest == [method |-> "", auth |-> NoHeader, body |-> NotJson]
NoResponse == Response(0, [none |-> EmptyStr])

UnauthorizedResponse ==
  Response(401, [error |-> <<"Unauthorized: Invalid or missing API key">>])
WelcomeResponse(key) ==
  Response(200, [message |-> <<"Welcome to the Research Agent API">>,
                 usage |-> <<"<usage>">> \o (IF Len(key) > 0 THEN <<"<key hint>">> ELSE EmptyStr)])
MethodNotAllowedResponse == Response(405, [error |-> <<"Method Not Allowed">>])
InvalidJsonResponse == Response(400, [error |-> <<"Invalid JSON body">>])
MissingQueryResponse == Response(400, [error |-> <<"Missing query parameter">>])

\* Mutant: the error response carries status 200.
RunResponseAlwaysOk(query, outcome) ==
  IF outcome.kind = "return"
  THEN Response(200, [query |-> query, answer |-> outcome.value])
  ELSE Response(200, [error |-> outcome.value])

\* The response after runAgent(query) has returned or thrown (lines 600-613);
\* errorMsg = err.message || String(err).
RunResponse(query, outcome) ==
  IF outcome.kind = "return"
  THEN Response(200, [query |-> query, answer |-> outcome.value])
  ELSE Response(500, [error |-> IF Len(outcome.value) > 0 THEN outcome.value
                                ELSE <<"Error">>])

\* ===== ResearchStorage: keywords and similarity =====
\* A text is a sequence of words as written (the text split at white space).
\* text.toLowerCase().replace(/[^\w\s]/g, " ").split(/\s+/) on one written
\* word: lower case, punctuation turned into a break.
NormalizedWord(word) ==
  CASE word = "France?" -> <<"france">>
    [] word = "France" -> <<"france">>
    [] word = "Capital" -> <<"capital">>
    [] word = "Paris" -> <<"paris">>
    [] word = "AI" -> <<"ai">>
    [] word = "The" -> <<"the">>
    [] word = "design-pattern" -> <<"design", "pattern">>
    [] OTHER -> <<word>>

RECURSIVE Normalized(_)
Normalized(text) ==
  IF text = << >> THEN << >>
  ELSE NormalizedWord(Head(text)) \o Normalized(Tail(text))

\* The stopWords set of extractKeywords.
StopWords ==
  { "a", "an", "the", "and", "or", "but", "is", "are", "was", "were",
    "be", "been", "being", "in", "on", "at", "to", "for", "with", "by",
    "about", "against", "between", "into", "through", "during", "before",
    "after", "above", "below", "from", "up", "down", "of", "off", "over",
    "under", "again", "further", "then", "once", "here", "there", "when",
    "where", "why", "how", "all", "any", "both", "each", "few", "more",
    "most", "other", "some", "such", "no", "nor", "not", "only", "own",
    "same", "so", "than", "too", "very", "can", "will", "just", "should",
    "now", "what", "who", "whom", "this", "that", "these", "those" }

\* The normalized words of the alphabet that word.length > 2 rejects.
ShortWords == {"", "ai", "of", "is", "a", "an", "or", "be", "in", "on", "at",
               "to", "by", "up", "no", "so"}

KeywordLimit == 20

\* extractKeywords: the normalized words that are longer than two characters
\* and are not stop words, in order, duplicates kept, at most 20.
extractKeywords(text) ==
  LET words == SelectSeq(Normalized(text),
                         LAMBDA w : w \notin ShortWords /\ w \notin StopWords)
  IN SubSeq(words, 1, Min(Len(words), KeywordLimit))

SetOf(seq) == {seq[i] : i \in 1..Len(seq)}

\* A similarity is the quotient num / den of two integers, den > 0.
Quotient(num, den) == [num |-> num, den |-> den]
AtLeast(a, b) == a.num * b.den >= b.num * a.den
Greater(a, b) == a.num * b.den > b.num * a.den

\* Mutant: the common keywords over the keywords of the first query.
calculateSimilarityOverFirst(query1, query2) ==
  LET keywords1 == SetOf(extractKeywords(query1))
      keywords2 == SetOf(extractKeywords(query2))
      common == Cardinality(keywords1 \cap keywords2)
  IN IF keywords1 = {} \/ keywords2 = {} THEN Quotient(0, 1)
     ELSE Quotient(common, Cardinality(keywords1))

\* calculateSimilarity: 0 when a query has no keyword, else the Jaccard
\* similarity of the two keyword sets.
calculateSimilarity(query1, query2) ==
  LET keywords1 == SetOf(extractKeywords(query1))
      keywords2 == SetOf(extractKeywords(query2))
      common == Cardinality(keywords1 \cap keywords2)
  IN IF keywords1 = {} \/ keywords2 = {} THEN Quotient(0, 1)
     ELSE Quotient(common, Cardinality(keywords1) + Cardinality(keywords2) - common)

\* No calculateSimilarity call has been made.
NoSimilarityCall ==
  [called |-> FALSE, query1 |-> EmptyStr, query2 |-> EmptyStr, value |-> Quotient(0, 1)]

\* ===== ResearchStorage: index and graph =====
\* An object with no own property.
EmptyObject == [k \in {} |-> << >>]
EmptyIndex == [entries |-> << >>, keywords |-> EmptyObject]
EmptyGraph == [nodes |-> EmptyObject, edges |-> << >>]

\* index.entries is kept as the sequence of its values in insertion order (the
\* order of for..in); its keys are the ids of the values.
HasEntry(index, id) == \E i \in 1..Len(index.entries) : index.entries[i].id = id
EntryOf(index, id) ==
  index.entries[CHOOSE i \in 1..Len(index.entries) : index.entries[i].id = id]

\* Array.prototype.sort with (a, b) => b[1] - a[1]: stable, highest first.
RECURSIVE SortBySimilarity(_, _)
SortBySimilarity(entries, query) ==
  IF entries = << >> THEN << >>
  ELSE LET sim == [i \in 1..Len(entries) |->
                     calculateSimilarity(query, entries[i].query)]
           first == CHOOSE i \in 1..Len(entries) :
                      /\ \A j \in 1..Len(entries) : ~Greater(sim[j], sim[i])
                      /\ \A j \in 1..(i - 1) : Greater(sim[i], sim[j])
           rest == [j \in 1..(Len(entries) - 1) |->
                      IF j < first THEN entries[j] ELSE entries[j + 1]]
       IN <<entries[first]>> \o SortBySimilarity(rest, query)

\* findSimilarResearch after initialize.
findSimilarResearch(index, threshold, query) ==
  SortBySimilarity(
    SelectSeq(index.entries,
              LAMBDA entry : AtLeast(calculateSimilarity(query, entry.query), threshold)),
    query)

\* Property names every object inherits from Object.prototype and that
\* extractKeywords can produce: index.keywords[name] is then neither undefined
\* nor an array.
Inherited == {"constructor", "__proto__"}

\* The keyword loop of storeResearch (lines 466-473) from topic number i on;
\* failed when keywords[keyword].includes is not a function.
RECURSIVE UpdateKeywords(_, _, _, _)
UpdateKeywords(keywords, topics, i, id) ==
  IF i > Len(topics) THEN [keywords |-> keywords, failed |-> FALSE]
  ELSE LET keyword == topics[i]
       IN IF keyword \in DOMAIN keywords
          THEN UpdateKeywords(
                 IF id \in SetOf(keywords[keyword]) THEN keywords
                 ELSE [keywords EXCEPT ![keyword] = Append(@, id)],
                 topics, i + 1, id)
          ELSE IF keyword \in Inherited
          THEN [keywords |-> keywords, failed |-> TRUE]
          ELSE UpdateKeywords((keyword :> <<id>>) @@ keywords, topics, i + 1, id)

ResearchNode(id) == <<"research:", id>>
TopicNode(topic) == <<"topic:", topic>>
Node(nodeId, label, weight) == [id |-> nodeId, label |-> label, weight |-> weight]
Edge(source, target) == [source |-> source, target |-> target, weight |-> 1]

\* The topic loop of updateTopicGraph (lines 498-514) from topic number i on.
RECURSIVE AddTopics(_, _, _, _)
AddTopics(graph, nodeId, topics, i) ==
  IF i > Len(topics) THEN graph
  ELSE LET topicId == TopicNode(topics[i])
           weight == IF topicId \in DOMAIN graph.nodes
                     THEN graph.nodes[topicId].weight ELSE 0
           nodes == (topicId :> Node(topicId, topics[i], weight + 1)) @@ graph.nodes
       IN AddTopics([nodes |-> nodes,
                     edges |-> Append(graph.edges, Edge(nodeId, topicId))],
                    nodeId, topics, i + 1)

\* updateTopicGraph
updateTopicGraph(graph, id, topics, related) ==
  LET nodeId == ResearchNode(id)
      withNode == [graph EXCEPT !.nodes = (nodeId :> Node(nodeId, id, 1)) @@ @]
      withTopics == AddTopics(withNode, nodeId, topics, 1)
  IN [withTopics EXCEPT !.edges = @ \o
        [j \in 1..Len(related) |-> Edge(nodeId, ResearchNode(related[j]))]]

\* similarEntries.map(entry => entry.id) in storeResearch
RelatedOf(index, threshold, query) ==
  LET similarEntries == findSimilarResearch(index, threshold, query)
  IN [j \in 1..Len(similarEntries) |-> similarEntries[j].id]

\* getRelatedResearch after initialize.
getRelatedResearch(index, id) ==
  IF ~HasEntry(index, id) THEN << >>
  ELSE LET related == EntryOf(index, id).related
           found == SelectSeq(related, LAMBDA relatedId : HasEntry(index, relatedId))
       IN [j \in 1..Len(found) |-> EntryOf(index, found[j])]

\* ----- Calls on one ResearchStorage -----
\* The callers of the methods of one instance; a caller awaits its call
\* before it makes the next one.
Callers == 1..2

\* A file: whole says that its text is the text one writeTextFile wrote,
\* from the first character to the last; data is the value that text stands
\* for.  A file that was opened for writing and not written yet, or that holds
\* what is left of two writes, is not whole.
\* Such a file, and no file, stand for no value.
NoJson == [json |-> FALSE]
File(data) == [exists |-> TRUE, whole |-> TRUE, data |-> data]
NoFile == [exists |-> FALSE, whole |-> FALSE, data |-> NoJson]
CutFile == [exists |-> TRUE, whole |-> FALSE, data |-> NoJson]

\* The file operation a call is waiting for: state is "none", "pending" (the
\* operation has not happened yet), "opened" (the file is open for writing
\* and cut to length 0, the text is not written yet) or "done" (it has
\* happened, the call has not gone on yet); file is what is being written or
\* what was read.
NoIo == [state |-> "none", failed |-> FALSE, file |-> NoFile]
Pending(file) == [state |-> "pending", failed |-> FALSE, file |-> file]

\* A caller that has made no call.  pc is where the call is, kind, error and
\* value are how it ended.
CallerIdle ==
  [pc |-> "idle", op |-> "none", query |-> EmptyStr, content |-> EmptyStr,
   id |-> "", metadata |-> << >>, io |-> NoIo, kind |-> "none", error |-> "",
   value |-> << >>]

\* ===== Inputs of a run =====
Runs == {1, 2}

\* The runs of the sequential specification.
SeqRuns == {1}

Queries == {<<"2+2?">>}

Act(name, input) == <<"Action:", " ">> \o name \o <<"[">> \o input \o <<"]">>
Tht(text) == <<"Thought:", " ">> \o text \o <<"\n">>
Ans(text) == <<"Answer:", " ">> \o text

Sonar == <<"PerplexitySonar">>

\* Replies that ask for a tool.
ActionReplies ==
  { Act(Sonar, <<"x">>),
    Act(<<"perplexitysonar">>, <<"x">>),
    Act(<<"WebSearch">>, <<"x">>),
    Act(<<"PerplexitySonar", " ">>, <<"x">>),
    Act(Sonar, <<" ", "x", "\n">>),
    Tht(<<"t">>) \o Act(Sonar, <<"x">>),
    Tht(<<"t">>) \o Act(<<"WebSearch">>, <<"x">>),
    Act(Sonar, <<"x">>) \o <<"\n">> \o Ans(<<" ">>) }

\* Replies that hold an "Answer:" marker.
AnswerReplies ==
  { Ans(<<"4">>),
    Tht(<<"t">>) \o Ans(<<"4">>),
    Ans(<<"4", " ", "x", "\n">>),
    <<"x", " ">> \o Ans(<<"4">>),
    Ans(<<"4">>) \o <<"\n">> \o Ans(<<"x">>),
    Ans(<<"4">>) \o <<"\n">> \o Act(Sonar, <<"x">>),
    Act(Sonar, <<"x">>) \o <<"\n">> \o Ans(<<"4">>),
    <<"Answer:">>,
    Ans(<<" ", "\n">>),
    Tht(<<"t">>) \o <<"Answer:">> }

\* Replies with neither, and empty replies.
OtherReplies ==
  { EmptyStr,
    <<" ", "\n">>,
    <<"x">>,
    <<" ", "x", " ">>,
    <<"Thought:", " ", "t">>,
    <<"Thought:", " ", "t", "\n", "\n", "x">>,
    <<"Thought:", " ">>,
    <<"Action:", " ", "PerplexitySonar", "[", "]">>,
    <<"Action:", "[", "x", "]">>,
    <<"Action:", " ", "PerplexitySonar", "[", "x">> }

Replies == ActionReplies \cup AnswerReplies \cup OtherReplies

\* HTTP statuses of a failed request.
Statuses == {400, 429, 500}

\* A fetch that rejects (transport error) has no status; in the record of
\* failures it is written 0.
TransportFailure == 0

\* What the run function of a Tool (interface Tool, lines 87-91) can do, as
\* runAgent sees it: return a string, or throw an Error with a message.
ToolOutcomes == {Returned(<<"4", "2">>), Returned(EmptyStr), Thrown(<<"boom">>)}

\* The base input of a run: the reply the model gives and what the tool does
\* in every step that does not deviate.
BaseInputs ==
  { [reply |-> Act(Sonar, <<"x">>), tool |-> Returned(<<"4", "2">>)],
    [reply |-> Act(Sonar, <<"x">>), tool |-> Thrown(<<"boom">>)],
    [reply |-> Act(<<"WebSearch">>, <<"x">>), tool |-> Returned(<<"4", "2">>)],
    [reply |-> Tht(<<"t">>) \o Act(Sonar, <<"x">>), tool |-> Returned(<<"4", "2">>)],
    [reply |-> Tht(<<"t">>) \o Act(<<"WebSearch">>, <<"x">>), tool |-> Returned(<<"4", "2">>)] }

\* ===== CSS selector finder: runAgent and its tools =====
\* const MAX_STEPS = 10 of the selector finder.
FinderMaxSteps == 10

\* The names of the tools array of the selector finder.
FinderTools ==
  {<<"GetPageContent">>, <<"QuerySelector">>, <<"ExtractElements">>, <<"AnalyzePage">>}

\* tools.find((t) => t.name.toLowerCase() === toolName.toLowerCase())
FinderFindTool(toolName) ==
  LET hits == {t \in FinderTools : ToLowerCase(t) = ToLowerCase(toolName)}
  IN IF hits = {} THEN [found |-> FALSE, name |-> EmptyStr]
     ELSE [found |-> TRUE, name |-> CHOOSE t \in hits : TRUE]

\* input.split("|").map(s => s.trim())
RECURSIVE SplitOnBar(_)
SplitOnBar(input) ==
  LET bar == FirstIn(input, {"|"}, 1)
  IN IF bar > Len(input) THEN <<Trim(input)>>
     ELSE <<Trim(SubSeq(input, 1, bar - 1))>>
            \o SplitOnBar(SubSeq(input, bar + 1, Len(input)))

\* What a tool returns for an input it does not accept, before it asks for
\* the browser: QuerySelector needs a URL and a selector, ExtractElements
\* three parts; GetPageContent and AnalyzePage take any input.
InputError(toolName, input) ==
  LET parts == SplitOnBar(input)
  IN IF toolName = <<"QuerySelector">>
          /\ (Len(parts) < 2 \/ Len(parts[1]) = 0 \/ Len(parts[2]) = 0)
     THEN [found |-> TRUE,
           text |-> <<"Error: Input must be in format 'URL | CSS selector'">>]
     ELSE IF toolName = <<"ExtractElements">> /\ Len(parts) < 3
     THEN [found |-> TRUE,
           text |-> <<"Error: Input must be in format 'URL | CSS selector | attribute1:selector1, attribute2:selector2@attr'">>]
     ELSE [found |-> FALSE, text |-> EmptyStr]

\* The catch block of a tool: return "Error: " + (err as Error).message
ToolErrorText(message) == <<"Error: ">> \o message

\* query.match(/(https?:\/\/[^\s]+)/): the first URL of the query; a URL is
\* a token that starts with http:// or https:// and the tokens after it up to
\* the next white space.
UrlStarts == {"http://example.com", "https://shop.example"}
UrlMatch(query) ==
  LET u == FirstIn(query, UrlStarts, 1)
      stop == FirstIn(query, {" ", "\n"}, u)
  IN IF u > Len(query) THEN [found |-> FALSE, g1 |-> EmptyStr]
     ELSE [found |-> TRUE, g1 |-> SubSeq(query, u, stop - 1)]

\* fallbackAnswer: the generic selectors, ending with the URL of the query
\* when it has one.
DefaultFallbackAnswer(query) ==
  LET urlMatch == UrlMatch(query)
      head == <<"<genericSelectors>", "You may need to adjust them based on the specific ">>
  IN IF urlMatch.found
     THEN head \o <<"structure of ">> \o urlMatch.g1 \o <<".">>
     ELSE head \o <<"page structure.">>

FinderObservationPrefix == <<"Based on my analysis, here's what I found:\n\n">>
FinderPartialPrefix == <<"Based on partial analysis, here's what I found:\n\n">>

\* Mutant: with no observation and no partial answer the run fails.
FinderFallbackThrows(lastObs, partial, fallbackAnswer) ==
  IF Len(lastObs) > 0 THEN Returned(FinderObservationPrefix \o lastObs)
  ELSE IF Len(partial) > 0 THEN Returned(FinderPartialPrefix \o partial)
  ELSE Thrown(StepLimitMessage)

\* The fallback of runAgent of the selector finder: the same three-way choice
\* at the empty reply, the empty answer, the reply without Action, the catch
\* block of a step and the step limit.
FinderFallback(lastObs, partial, fallbackAnswer) ==
  IF Len(lastObs) > 0 THEN Returned(FinderObservationPrefix \o lastObs)
  ELSE IF Len(partial) > 0 THEN Returned(FinderPartialPrefix \o partial)
  ELSE Returned(fallbackAnswer)

\* What the loop body of the selector finder does with one reply, up to its
\* next await or return.  kind: "return" (the run leaves the loop), "invoke"
\* (the tool asks for the browser), "toolReturned" (the tool returned without
\* the browser), "notfound".
FinderProcessReply(reply, lastObs, partial, fallbackAnswer) ==
  LET am == AnswerMatch(reply)
      answer == Trim(am.g1)
      partial2 == RecordThought(partial, reply)
      cm == ActionMatch(reply)
      toolName == Trim(cm.g1)
      toolInput == Trim(cm.g2)
      tool == FinderFindTool(toolName)
      inputError == InputError(tool.name, toolInput)
      out == [kind |-> "return", value |-> EmptyStr, pushed |-> TRUE,
              partial |-> partial, tool |-> EmptyStr]
  IN IF IsEmptyReply(reply)
     THEN [out EXCEPT !.value = FinderFallback(lastObs, partial, fallbackAnswer).value,
                      !.pushed = FALSE]
     ELSE IF am.found /\ Len(answer) > 0
     THEN [out EXCEPT !.value = answer]
     ELSE IF am.found
     THEN [out EXCEPT !.value = FinderFallback(lastObs, partial, fallbackAnswer).value]
     ELSE IF cm.found /\ ~tool.found
     THEN [out EXCEPT !.kind = "notfound", !.partial = partial2,
                      !.value = NotFoundObservation(toolName)]
     ELSE IF cm.found /\ inputError.found
     THEN [out EXCEPT !.kind = "toolReturned", !.partial = partial2,
                      !.value = inputError.text]
     ELSE IF cm.found
     THEN [out EXCEPT !.kind = "invoke", !.partial = partial2, !.tool = tool.name]
     ELSE [out EXCEPT !.value = FinderFallback(lastObs, partial2, fallbackAnswer).value,
                      !.partial = partial2]

\* ----- Inputs of the selector finder -----
FinderQueries == {<<"selectors", " ", "http://example.com", "/p", " ", "please">>,
                  <<"selectors">>}

GetPage == <<"GetPageContent">>
PageUrl == <<"http://example.com">>

\* What the completion call of a step of the selector finder can return.
FinderReplies ==
  { Act(GetPage, PageUrl),
    Tht(<<"t">>) \o Act(GetPage, PageUrl),
    Act(<<"analyzepage">>, PageUrl),
    Act(<<"QuerySelector">>, PageUrl),
    Act(<<"QuerySelector">>, PageUrl \o <<" ", "|", " ", ".p">>),
    Act(<<"ExtractElements">>, PageUrl \o <<"|", ".p">>),
    Act(<<"WebSearch">>, <<"x">>),
    Ans(<<"4">>),
    Ans(<<" ">>),
    Act(GetPage, PageUrl) \o <<"\n">> \o Ans(<<" ">>),
    Tht(<<"t">>),
    <<"x">>,
    EmptyStr,
    <<" ", "\n">> }

\* The awaited calls of a tool on the browser and its page, in order, after
\* getBrowser has returned.
PageCalls(toolName) ==
  CASE toolName = <<"GetPageContent">> ->
         <<"newPage", "setDefaultNavigationTimeout", "setViewport", "goto",
           "content", "close">>
    [] toolName = <<"QuerySelector">> ->
         <<"newPage", "setDefaultNavigationTimeout", "goto", "$$eval", "$$eval",
           "close">>
    [] toolName = <<"ExtractElements">> ->
         <<"newPage", "setDefaultNavigationTimeout", "goto", "$$eval", "close">>
    [] OTHER ->
         <<"newPage", "setDefaultNavigationTimeout", "goto", "evaluate", "close">>

\* page.setDefaultNavigationTimeout returns no promise: awaiting it cannot
\* throw.
CanReject(call) == call # "setDefaultNavigationTimeout"

\* What one call on the browser or the page can end with: it resolves (the
\* value is the text the tool has when all its calls have resolved), or it
\* rejects.  The text can be empty.
PageOutcomes == {Returned(<<"<html>">>), Returned(EmptyStr), Thrown(<<"net::ERR">>)}

\* The Error of a puppeteer call on a browser that was closed.
ClosedMessage == <<"Target closed">>
LaunchMessage == <<"Failed to launch the browser process">>
CloseMessage == <<"close failed">>

\* The base input of a run: the reply of every step that does not deviate.
FinderBaseInputs ==
  { [reply |-> Act(GetPage, PageUrl)],
    [reply |-> Tht(<<"t">>) \o Act(GetPage, PageUrl)],
    [reply |-> Act(<<"WebSearch">>, <<"x">>)],
    [reply |-> Ans(<<"4">>)] }

\* ===== Scraping agent: the ScrapeURL tool =====
\* Calls of ScrapeURL in one history.
MaxScrapeCalls == 2

\* A ScrapeConfig as the control flow of the tool reads it; an absent field
\* is empty (multiple: FALSE).  extractProperty and extractAttribute choose
\* what is read from an element, which is drawn from ScrapeTexts in all cases.
ScrapeConfig(url, selector, waitFor, multiple) ==
  [url |-> url, selector |-> selector, waitFor |-> waitFor, multiple |-> multiple]

\* The input strings of the tool: parses says whether JSON.parse(input)
\* returns, config what it returns.
ScrapeInputs ==
  { [parses |-> FALSE, config |-> ScrapeConfig(EmptyStr, EmptyStr, EmptyStr, FALSE)],
    [parses |-> TRUE, config |-> ScrapeConfig(EmptyStr, <<".price">>, EmptyStr, FALSE)],
    [parses |-> TRUE, config |-> ScrapeConfig(PageUrl, EmptyStr, EmptyStr, FALSE)],
    [parses |-> TRUE, config |-> ScrapeConfig(PageUrl, <<".price">>, EmptyStr, FALSE)],
    [parses |-> TRUE, config |-> ScrapeConfig(PageUrl, <<".price">>, EmptyStr, TRUE)],
    [parses |-> TRUE, config |-> ScrapeConfig(PageUrl, <<".price">>, <<"#app">>, FALSE)] }

\* The texts an evaluate call on the page reads.
ScrapeTexts == { <<" ", "$9", "\n">>, <<" ">>, EmptyStr }

\* The messages of the errors inside run.
SyntaxMessage == <<"Unexpected token in JSON">>
UrlRequiredMessage == <<"URL is required">>
\* The message of a puppeteer call that rejects.
ScrapeMessage(call) == <<call, " failed">>

\* return "Error: " + (err as Error).message
ScrapeErrorText(message) == <<"Error: ">> \o message

\* result = `No element found matching selector: ${config.selector}`
NoElementText(selector) == <<"No element found matching selector: ">> \o selector

\* return result?.trim() || "No content extracted"
ScrapeResult(result) ==
  IF Len(Trim(result)) > 0 THEN Trim(result) ELSE <<"No content extracted">>

\* The calls that set the page up, in order, between puppeteer.launch and the
\* inner try block.
ConfigureCalls == <<"newPage", "setUserAgent", "setViewport">>

\* The first call on the page after goto (and waitForSelector).
ExtractStart(config) ==
  IF Len(config.selector) > 0 /\ ~config.multiple THEN "$" ELSE "evaluate"

\* ScrapeURL has not been called: no browser was launched.
ScrapeIdle ==
  [pc |-> "idle", config |-> ScrapeConfig(EmptyStr, EmptyStr, EmptyStr, FALSE),
   browsers |-> << >>, held |-> 0, pending |-> NoOutcome, result |-> NoOutcome,
   calls |-> 0]

\* ===== State =====
VARIABLES
  pc,              \* per run: "idle", "fetch", "delay", "tool", "done"
  step,            \* per run: the loop variable of runAgent
  messages,        \* per run: the transcript
  lastObservation, \* the module-level variable (line 185)
  partialAnswer,   \* per run: the local variable of runAgent
  replies,         \* per run: the replies callOpenRouter has returned; the
                   \* last one is assistantReply of the current step
  retries,         \* per run: the local variable of callOpenRouter
  requests,        \* per run: fetches issued by the current callOpenRouter
  delays,          \* per run: the delays the current callOpenRouter has waited
  failures,        \* per run: the failures the current callOpenRouter has seen (a bag)
  calls,           \* per run: callOpenRouter invocations of the run
  toolCalls,       \* per run: tool.run invocations of the run, <<name, input>>
  toolResults,     \* per run: what the finished tool.run invocations did
  result,          \* per run: how runAgent ended
  base,            \* per run: the base input
  budget,          \* per run: deviations left
  serverApiKey,    \* SERVER_API_KEY of the server process ("" when not set)
  request,         \* the HTTP request the handler is serving
  handler,         \* where the handler is: "idle", "json", "run", "done"
  response,        \* the Response the handler returned
  index,           \* ResearchStorage: the index in memory
  graph,           \* ResearchStorage: the topic graph in memory
  initialized,     \* ResearchStorage: initialize has completed
  similarityThreshold, \* ResearchStorage: the option, a quotient
  disk,            \* the index file, the graph file and the topic files
  uuids,           \* how many ids generateUUID has given out
  ioFailures,      \* how many reads and writes have failed
  instances,       \* how many ResearchStorage instances were constructed on the directory
  callers,         \* ResearchStorage, per caller: the call it made and where the call is
  similarityCall,  \* the last calculateSimilarity call and its value
  finder,          \* selector finder, per run: the locals and position of runAgent
  browser,         \* selector finder: the module variable, 0 for null
  browsers,        \* selector finder: "open" or "closed" per browser launched
  listener,        \* selector finder: signals delivered, closeBrowser calls of the listeners under way
  scrape           \* scraping agent: the ScrapeURL call and the browsers it launched

vars == <<pc, step, messages, lastObservation, partialAnswer, replies,
          retries, requests, delays, failures, calls, toolCalls, toolResults,
          result, base, budget, serverApiKey, request, handler, response,
          index, graph, initialized, similarityThreshold, disk, uuids,
          ioFailures, instances, callers, similarityCall, finder, browser,
          browsers, listener, scrape>>

\* The state of the runs, and the state outside runAgent and callOpenRouter.
runVars == <<pc, step, messages, lastObservation, partialAnswer, replies,
             retries, requests, delays, failures, calls, toolCalls, toolResults,
             result, base, budget>>
serverVars == <<serverApiKey, request, handler, response>>
storageVars == <<index, graph, initialized, similarityThreshold, disk, uuids,
                 ioFailures, instances, callers, similarityCall>>
finderVars == <<finder, browser, browsers, listener>>
outsideRun == <<serverVars, storageVars, finderVars, scrape>>

InitRuns(deviations) ==
  /\ pc = [r \in Runs |-> "idle"]
  /\ step = [r \in Runs |-> 0]
  /\ messages = [r \in Runs |-> << >>]
  /\ lastObservation = EmptyStr
  /\ partialAnswer = [r \in Runs |-> EmptyStr]
  /\ replies = [r \in Runs |-> << >>]
  /\ retries = [r \in Runs |-> 0]
  /\ requests = [r \in Runs |-> 0]
  /\ delays = [r \in Runs |-> << >>]
  /\ failures = [r \in Runs |-> EmptyBag]
  /\ calls = [r \in Runs |-> 0]
  /\ toolCalls = [r \in Runs |-> << >>]
  /\ toolResults = [r \in Runs |-> << >>]
  /\ result = [r \in Runs |-> NoOutcome]
  /\ base = [r \in Runs |-> CHOOSE b \in BaseInputs : TRUE]
  /\ budget = [r \in Runs |-> deviations]

\* No request is being served.
InitServer ==
  /\ serverApiKey = EmptyStr
  /\ request = NoRequest
  /\ handler = "idle"
  /\ response = NoResponse

\* No ResearchStorage is in use.
NoStorageInstance ==
  /\ index = EmptyIndex
  /\ graph = EmptyGraph
  /\ initialized = FALSE
  /\ similarityThreshold = Quotient(7, 10)
  /\ disk = [indexFile |-> NoFile, graphFile |-> NoFile, topics |-> << >>]
  /\ uuids = 0
  /\ ioFailures = 0
  /\ instances = 0
  /\ callers = [c \in Callers |-> CallerIdle]

NoStorage ==
  /\ NoStorageInstance
  /\ similarityCall = NoSimilarityCall

\* No run of the selector finder has started and no browser was launched.
FinderIdle(b, deviations) ==
  [pc |-> "idle", step |-> 0, messages |-> << >>, lastObservation |-> EmptyStr,
   partialAnswer |-> EmptyStr, fallbackAnswer |-> EmptyStr, held |-> 0,
   tool |-> EmptyStr, call |-> 0,
   pending |-> NoOutcome, result |-> NoOutcome, closeBrowserCalls |-> 0,
   base |-> b, budget |-> deviations]
\* No signal was delivered to the process.  closes lists the calls of
\* browser.close() the listeners wait for, in the order of the calls, each
\* with the listener that made it ("closeBrowser", or "exit" for the SIGINT
\* listener of the web server mode); exiting says that the await of that
\* listener has resolved and Deno.exit(0) is its next statement; exited and
\* code say that the process has ended and with which exit code; server says
\* whether the process was started in web server mode.
NoSignal == [delivered |-> 0, closes |-> << >>, exiting |-> FALSE,
             exited |-> FALSE, code |-> 0, server |-> FALSE]
NoBrowser ==
  /\ browser = 0
  /\ browsers = << >>
  /\ listener = NoSignal
NoFinder ==
  /\ finder = [r \in Runs |-> FinderIdle(CHOOSE b \in FinderBaseInputs : TRUE, 0)]
  /\ NoBrowser

\* ScrapeURL has not been called.
NoScrape == scrape = ScrapeIdle

InitWith(deviations) ==
  /\ InitRuns(deviations)
  /\ InitServer
  /\ NoStorage
  /\ NoFinder
  /\ NoScrape

Init == InitWith(MaxDeviations)

\* ===== Steps of runAgent and callOpenRouter =====
\* Mutant: the loop test written with <=.
StepAllowedOffByOne(stp) == stp <= MAX_STEPS

\* for (let step = 0; step < MAX_STEPS; step++): the loop test.
StepAllowed(stp) == stp < MAX_STEPS

\* The run ends: runAgent returns or throws.
Finish(r, outcome) ==
  /\ pc' = [pc EXCEPT ![r] = "done"]
  /\ result' = [result EXCEPT ![r] = outcome]

\* The loop test of runAgent with the loop variable at stp: either the next
\* step starts (callOpenRouter is entered and sends its first request) or the
\* loop is left and the step-limit fallback decides.
LoopTest(r, stp, lastObs, partial) ==
  /\ step' = [step EXCEPT ![r] = stp]
  /\ IF StepAllowed(stp)
     THEN /\ pc' = [pc EXCEPT ![r] = "fetch"]
          /\ calls' = [calls EXCEPT ![r] = @ + 1]
          /\ retries' = [retries EXCEPT ![r] = 0]
          /\ requests' = [requests EXCEPT ![r] = 1]
          /\ delays' = [delays EXCEPT ![r] = << >>]
          /\ failures' = [failures EXCEPT ![r] = EmptyBag]
          /\ UNCHANGED result
     ELSE /\ Finish(r, FallbackOnStepLimit(lastObs, partial))
          /\ UNCHANGED <<calls, retries, requests, delays, failures>>

\* runAgent(query) up to its first await.
Start(r) ==
  /\ pc[r] = "idle"
  /\ \E q \in Queries, b \in BaseInputs :
       /\ messages' = [messages EXCEPT ![r] =
            << [role |-> "system", content |-> SystemPrompt],
               [role |-> "user", content |-> q] >>]
       /\ base' = [base EXCEPT ![r] = b]
  /\ lastObservation' = EmptyStr
  /\ partialAnswer' = [partialAnswer EXCEPT ![r] = EmptyStr]
  /\ LoopTest(r, 0, EmptyStr, EmptyStr)
  /\ UNCHANGED <<replies, toolCalls, toolResults, budget>>
  /\ UNCHANGED outsideRun

\* A deviation from the base input is paid from the budget.
Pay(r, deviates) ==
  /\ deviates => budget[r] > 0
  /\ budget' = [budget EXCEPT ![r] = IF deviates THEN @ - 1 ELSE @]

\* Mutant: the reply is appended even when it is empty.
PushReplyAlways(msgs, reply, pushed) ==
  Append(msgs, [role |-> "assistant", content |-> reply])

\* messages.push({ role: "assistant", content: assistantReply }) at line 298,
\* which the returns and the throw of lines 274-289 come before.
PushReply(msgs, reply, pushed) ==
  IF pushed THEN Append(msgs, [role |-> "assistant", content |-> reply]) ELSE msgs

\* Mutant: an unknown tool name gets no observation.
FetchOkNotFoundSilent(r) ==
  /\ pc[r] = "fetch"
  /\ \E reply \in Replies :
     \E p \in {ProcessReply(reply, lastObservation, partialAnswer[r])} :
       LET msgs == PushReply(messages[r], reply, p.pushed)
       IN /\ Pay(r, reply # base[r].reply)
          /\ replies' = [replies EXCEPT ![r] = Append(@, reply)]
          /\ partialAnswer' = [partialAnswer EXCEPT ![r] = p.partial]
          /\ UNCHANGED <<lastObservation, toolResults, base>>
          /\ UNCHANGED outsideRun
          /\ CASE p.kind \in {"return", "throw"} ->
                    /\ messages' = [messages EXCEPT ![r] = msgs]
                    /\ Finish(r, [kind |-> p.kind, value |-> p.value])
                    /\ UNCHANGED <<step, calls, retries, requests, delays,
                                   failures, toolCalls>>
               [] p.kind = "invoke" ->
                    /\ messages' = [messages EXCEPT ![r] = msgs]
                    /\ pc' = [pc EXCEPT ![r] = "tool"]
                    /\ toolCalls' = [toolCalls EXCEPT ![r] =
                                       Append(@, <<p.toolName, p.toolInput>>)]
                    /\ UNCHANGED <<step, calls, retries, requests, delays,
                                   failures, result>>
               [] p.kind = "notfound" ->
                    /\ messages' = [messages EXCEPT ![r] = msgs]
                    /\ LoopTest(r, step[r] + 1, lastObservation, p.partial)
                    /\ UNCHANGED toolCalls

\* fetch resolves with an ok response whose content is reply: callOpenRouter
\* returns it and the loop body of runAgent handles it.
FetchOk(r) ==
  /\ pc[r] = "fetch"
  /\ \E reply \in Replies :
     \E p \in {ProcessReply(reply, lastObservation, partialAnswer[r])} :
       LET msgs == PushReply(messages[r], reply, p.pushed)
       IN /\ Pay(r, reply # base[r].reply)
          /\ replies' = [replies EXCEPT ![r] = Append(@, reply)]
          /\ partialAnswer' = [partialAnswer EXCEPT ![r] = p.partial]
          /\ UNCHANGED <<lastObservation, toolResults, base>>
          /\ UNCHANGED outsideRun
          /\ CASE p.kind \in {"return", "throw"} ->
                    /\ messages' = [messages EXCEPT ![r] = msgs]
                    /\ Finish(r, [kind |-> p.kind, value |-> p.value])
                    /\ UNCHANGED <<step, calls, retries, requests, delays,
                                   failures, toolCalls>>
               [] p.kind = "invoke" ->
                    /\ messages' = [messages EXCEPT ![r] = msgs]
                    /\ pc' = [pc EXCEPT ![r] = "tool"]
                    /\ toolCalls' = [toolCalls EXCEPT ![r] =
                                       Append(@, <<p.toolName, p.toolInput>>)]
                    /\ UNCHANGED <<step, calls, retries, requests, delays,
                                   failures, result>>
               [] p.kind = "notfound" ->
                    /\ messages' = [messages EXCEPT ![r] =
                                      Append(msgs, ObservationMessage(p.value))]
                    /\ LoopTest(r, step[r] + 1, lastObservation, p.partial)
                    /\ UNCHANGED toolCalls

\* A request of callOpenRouter failed and what was thrown is f: the function
\* waits before its next request, or it throws and the catch block of the
\* step of runAgent decides.
AfterFailure(r, f, next) ==
  /\ retries' = [retries EXCEPT ![r] = next.retries]
  /\ failures' = [failures EXCEPT ![r] = @ (+) SetToBag({f})]
  /\ Pay(r, f \notin BagToSet(failures[r]))
  /\ IF next.thrown
     THEN /\ Finish(r, FallbackOnError(lastObservation, partialAnswer[r], next.err))
          /\ UNCHANGED delays
     ELSE /\ pc' = [pc EXCEPT ![r] = "delay"]
          /\ delays' = [delays EXCEPT ![r] = Append(@, next.delay)]
          /\ UNCHANGED result
  /\ UNCHANGED <<step, messages, lastObservation, partialAnswer, replies,
                 requests, calls, toolCalls, toolResults, base>>
  /\ UNCHANGED outsideRun

\* fetch resolves with a response that is not ok.
FetchStatus(r) ==
  /\ pc[r] = "fetch"
  /\ \E status \in Statuses : AfterFailure(r, status, OnHttpError(retries[r], status))

\* fetch rejects.
FetchThrows(r) ==
  /\ pc[r] = "fetch"
  /\ AfterFailure(r, TransportFailure, OnCatch(retries[r], TransportMessage))

\* The delay is over: continue, the loop test of callOpenRouter, next request.
DelayDone(r) ==
  /\ pc[r] = "delay"
  /\ IF retries[r] <= MAX_RETRIES
     THEN /\ pc' = [pc EXCEPT ![r] = "fetch"]
          /\ requests' = [requests EXCEPT ![r] = @ + 1]
          /\ UNCHANGED result
     ELSE /\ Finish(r, FallbackOnError(lastObservation, partialAnswer[r],
                         <<"Failed to call OpenRouter API after 4 attempts">>))
          /\ UNCHANGED requests
  /\ UNCHANGED <<step, messages, lastObservation, partialAnswer, replies,
                 retries, delays, failures, calls, toolCalls, toolResults, base,
                 budget>>
  /\ UNCHANGED outsideRun

\* Mutant: the loop continues without the observation of the tool.
ToolDoneObservationLost(r) ==
  /\ pc[r] = "tool"
  /\ \E out \in ToolOutcomes :
       LET lastObs == IF out.kind = "return" THEN out.value ELSE lastObservation
       IN /\ Pay(r, out # base[r].tool)
          /\ lastObservation' = lastObs
          /\ toolResults' = [toolResults EXCEPT ![r] = Append(@, out)]
          /\ LoopTest(r, step[r] + 1, lastObs, partialAnswer[r])
  /\ UNCHANGED <<messages, partialAnswer, replies, toolCalls, base>>
  /\ UNCHANGED outsideRun

\* tool.run resolves or rejects: the observation is appended and the loop
\* continues with the next step.
ToolDone(r) ==
  /\ pc[r] = "tool"
  /\ \E out \in ToolOutcomes :
       LET observation == IF out.kind = "return" THEN out.value
                          ELSE ErrorObservation(out.value)
           lastObs == IF out.kind = "return" THEN observation ELSE lastObservation
       IN /\ Pay(r, out # base[r].tool)
          /\ lastObservation' = lastObs
          /\ toolResults' = [toolResults EXCEPT ![r] = Append(@, out)]
          /\ messages' = [messages EXCEPT ![r] =
                            Append(@, ObservationMessage(observation))]
          /\ LoopTest(r, step[r] + 1, lastObs, partialAnswer[r])
  /\ UNCHANGED <<partialAnswer, replies, toolCalls, base>>
  /\ UNCHANGED outsideRun

Step(r) ==
  \/ Start(r)
  \/ FetchOk(r)
  \/ FetchStatus(r)
  \/ FetchThrows(r)
  \/ DelayDone(r)
  \/ ToolDone(r)

Next == \E r \in SeqRuns : Step(r)

Spec == Init /\ [][Next]_vars

\* fetch resolves or rejects.
FetchDone(r) == FetchOk(r) \/ FetchStatus(r) \/ FetchThrows(r)

\* Every fetch, delay and tool.run of the run eventually resolves or rejects,
\* and a run that was asked for starts.  The condition on fetch is
\* WF_vars(FetchDone(1)) with the enabling condition of the action written
\* out: FetchDone(1) is enabled exactly when the run is at a pending fetch
\* (an ok response with the base reply is always possible).
FairSpec ==
  /\ Spec
  /\ WF_vars(Start(1))
  /\ WF_vars(DelayDone(1))
  /\ WF_vars(ToolDone(1))
  /\ ([]<>(pc[1] # "fetch") \/ []<><<FetchDone(1)>>_vars)

\* ===== Two runs in one server process =====
\* The server handler awaits runAgent for each request (line 601) and Deno.serve
\* handles requests concurrently: the runs interleave at their await points.
\* Provider failures are left out here (no run deviates from its base input).
ConcInit == InitWith(ConcDeviations)

ConcStep(r) ==
  \/ Start(r)
  \/ FetchOk(r)
  \/ ToolDone(r)

ConcNext == \E r \in Runs : ConcStep(r)

ConcSpec == ConcInit /\ [][ConcNext]_vars

\* ===== One request to the server =====
ServerApiKeys == {EmptyStr, <<"k">>}
Methods == {"GET", "POST", "PUT"}
AuthHeaders ==
  { NoHeader,
    Header(<<"Bearer ", "k">>),
    Header(<<"Bearer ", "x">>),
    Header(<<"k">>),
    Header(<<"bearer ", "k">>),
    Header(<<"Bearer ", "k", "x">>),
    Header(<<"Bearer ">>) }
Bodies ==
  { NotJson,
    JsonNull,
    JsonNumber,
    JsonObject(Absent, Absent),
    JsonObject(JString(<<"2+2?">>), Absent),
    JsonObject(Absent, JString(<<"2+2?">>)),
    JsonObject(JNull, JString(<<"2+2?">>)),
    JsonObject(JString(<<"2+2?">>), JNumber(<<"5">>)),
    JsonObject(JString(EmptyStr), JString(<<"2+2?">>)),
    JsonObject(JNumber(<<"5">>), JString(<<"2+2?">>)),
    JsonObject(JNumber(<<"0">>), JString(<<"2+2?">>)),
    JsonObject(Absent, JString(EmptyStr)) }
Requests == [method : Methods, auth : AuthHeaders, body : Bodies]

ServerInit ==
  /\ InitRuns(ServerDeviations)
  /\ NoStorage
  /\ NoFinder
  /\ NoScrape
  /\ serverApiKey \in ServerApiKeys
  /\ request = NoRequest
  /\ handler = "idle"
  /\ response = NoResponse

\* The handler returns a Response.
Reply(resp) ==
  /\ response' = resp
  /\ handler' = "done"

\* A request arrives: the handler runs up to its first await (req.json()) or
\* returns before it (lines 535-581).
Receive ==
  /\ handler = "idle"
  /\ \E req \in Requests :
       /\ request' = req
       /\ IF ~Authorized(serverApiKey, req.auth) THEN Reply(UnauthorizedResponse)
          ELSE IF req.method = "GET" THEN Reply(WelcomeResponse(serverApiKey))
          ELSE IF req.method # "POST" THEN Reply(MethodNotAllowedResponse)
          ELSE handler' = "json" /\ UNCHANGED response
  /\ UNCHANGED <<runVars, serverApiKey, storageVars,
               finderVars, scrape>>

\* req.json() resolves or rejects: the query is read and tested, and runAgent
\* is called (lines 581-601).
JsonDone ==
  /\ handler = "json"
  /\ IF JsonFails(request.body) THEN Reply(InvalidJsonResponse)
     ELSE IF ~IsUsableQuery(QueryOf(request.body)) THEN Reply(MissingQueryResponse)
     ELSE handler' = "run" /\ UNCHANGED response
  /\ UNCHANGED <<runVars, serverApiKey, request, storageVars,
               finderVars, scrape>>

\* The run the handler awaits: runAgent(query) with the query of the request,
\* with every step of a run: replies, tool results, failed requests of
\* callOpenRouter, its delays and its retries.
ServerRun ==
  /\ handler = "run"
  /\ Step(1)
  /\ messages'[1][2].content = QueryOf(request.body).text

\* runAgent has returned or thrown: the handler returns its Response.
Respond ==
  /\ handler = "run"
  /\ pc[1] = "done"
  /\ Reply(RunResponse(QueryOf(request.body).text, result[1]))
  /\ UNCHANGED <<runVars, serverApiKey, request, storageVars,
               finderVars, scrape>>

ServerNext == Receive \/ JsonDone \/ ServerRun \/ Respond

ServerSpec == ServerInit /\ [][ServerNext]_vars

\* ===== ResearchStorage instances on one research directory =====
MaxStores == 3
MaxIoFailures == 1
\* Instances constructed on the directory, one after the other.
MaxInstances == 2

Thresholds == {Quotient(1, 2), Quotient(7, 10)}
StorageQueries ==
  { <<"The", "capital", "of", "France?">>,
    <<"France", "Capital", "Paris">>,
    <<"constructor", "design-pattern">> }
Contents == {<<"text">>}
Uuids == <<"id1", "id2", "id3", "id4", "id5">>

\* The instance after its constructor, and a directory with no file.
InitStorage ==
  /\ index = EmptyIndex
  /\ graph = EmptyGraph
  /\ initialized = FALSE
  /\ disk = [indexFile |-> NoFile, graphFile |-> NoFile, topics |-> << >>]
  /\ uuids = 0
  /\ ioFailures = 0
  /\ instances = 1
  /\ callers = [c \in Callers |-> CallerIdle]
  /\ similarityCall = NoSimilarityCall

\* Mutant: the new entry lists itself among its related entries.
MetadataSelfRelated(id, query, topics, related) ==
  [id |-> id, query |-> query, topics |-> topics, related |-> Append(related, id),
   path |-> <<"topics/", id, ".md">>]

\* The metadata of an entry, without its two timestamps.
Metadata(id, query, topics, related) ==
  [id |-> id, query |-> query, topics |-> topics, related |-> related,
   path |-> <<"topics/", id, ".md">>]

\* The calls a caller can make now.
StorageCalls ==
  {[op |-> "initialize", query |-> EmptyStr, content |-> EmptyStr, id |-> ""]}
  \cup {[op |-> "store", query |-> query, content |-> content, id |-> ""] :
          query \in {q \in StorageQueries : uuids < MaxStores}, content \in Contents}
  \cup {[op |-> "findSimilar", query |-> query, content |-> EmptyStr, id |-> ""] :
          query \in StorageQueries}
  \cup {[op |-> op, query |-> EmptyStr, content |-> EmptyStr, id |-> Uuids[n]] :
          op \in {"getRelated", "getById"},
          n \in {k \in 1..Len(Uuids) : k <= uuids + 1}}

\* Mutant: initialize runs again on an initialized instance.
NeedsInitializeAlways == TRUE

\* if (this.initialized) return;
NeedsInitialize == ~initialized

\* The call of caller c ends.
Ended(c, kind, error, value) ==
  [callers[c] EXCEPT !.pc = "done", !.io = NoIo, !.kind = kind, !.error = error,
                     !.value = value]

\* The call of caller c waits for a file operation at pc.
Waits(c, at, file) == [callers[c] EXCEPT !.pc = at, !.io = Pending(file)]

\* initialize() has returned to the method that awaited it, or to the caller.
InitializeReturned(c) ==
  IF callers[c].op = "initialize" THEN Ended(c, "return", "", << >>)
  ELSE [callers[c] EXCEPT !.pc = "afterInit", !.io = NoIo]

\* An ensureDir or a write of initialize() has failed: the outer catch block
\* throws the error again, and the method that awaited initialize() rejects
\* with it.
InitializeThrew(c) == Ended(c, "throw", "write", << >>)

\* The topic file of an entry.
TopicFile(id) ==
  LET hits == {i \in 1..Len(disk.topics) : disk.topics[i].metadata.id = id}
  IN IF hits = {} THEN NoFile ELSE File(disk.topics[CHOOSE i \in hits : TRUE])

\* The file a call reads or writes at pc at.
FileAt(at, id) ==
  CASE at \in {"readIndex", "saveIndexInit", "saveIndex"} -> disk.indexFile
    [] at \in {"readGraph", "saveGraphInit", "saveGraph"} -> disk.graphFile
    [] OTHER -> TopicFile(id)

\* The disk with the index file or the graph file replaced.
DiskWith(at, file) ==
  IF at \in {"saveIndexInit", "saveIndex"} THEN [disk EXCEPT !.indexFile = file]
  ELSE [disk EXCEPT !.graphFile = file]

\* How the lengths of the texts JSON.stringify makes of two indexes, or of
\* two graphs, compare: the one with more entries (nodes and edges) is the
\* longer one; with as many, the lengths of their strings decide.
JsonSize(at, data) ==
  IF at \in {"saveIndexInit", "saveIndex"} THEN Len(data.entries)
  ELSE Cardinality(DOMAIN data.nodes) + Len(data.edges)

\* JSON.parse(text) of the text readTextFile gave returns the value that was
\* written when the text is that of a whole file, and throws on the text of a
\* file that is empty or cut short or has text left over behind its value.
ParseFails(io) == io.failed \/ ~io.file.whole
JsonParse(io) == io.file.data

\* What the rest of the model leaves alone in a step of the storage.
OutsideStorage == <<runVars, serverVars, finderVars, scrape>>

\* new ResearchStorage(options) on the directory, after the calls on the
\* instance before it have ended: an empty index and graph in memory,
\* initialized = false; the files stay as they are.
NewInstance ==
  /\ instances < MaxInstances
  /\ \A c \in Callers : callers[c].pc \in {"idle", "done"}
  /\ instances' = instances + 1
  /\ index' = EmptyIndex
  /\ graph' = EmptyGraph
  /\ initialized' = FALSE
  /\ callers' = [c \in Callers |-> CallerIdle]
  /\ UNCHANGED <<similarityThreshold, disk, uuids, ioFailures, similarityCall>>
  /\ UNCHANGED OutsideStorage

\* A method is called: it runs up to its first await, which is that of
\* this.initialize() (of its body when initialize itself is called).
CallStart(c) ==
  /\ callers[c].pc \in {"idle", "done"}
  /\ \E call \in StorageCalls :
       LET started == [CallerIdle EXCEPT !.op = call.op, !.query = call.query,
                                         !.content = call.content, !.id = call.id]
       IN callers' = [callers EXCEPT ![c] =
            IF NeedsInitialize THEN [started EXCEPT !.pc = "ensureDir"]
            ELSE IF call.op = "initialize"
            THEN [started EXCEPT !.pc = "done", !.kind = "return"]
            ELSE [started EXCEPT !.pc = "afterInit"]]
  /\ UNCHANGED <<index, graph, initialized, similarityThreshold, disk, uuids,
                 ioFailures, instances, similarityCall>>
  /\ UNCHANGED OutsideStorage

\* initialize: both ensureDir calls have resolved and
\* readTextFile(indexPath) is called, or one of them has rejected (a mkdir
\* error other than "exists"): initialize throws before it reads a file and
\* initialized stays false.
EnsureDirsDone(c) ==
  /\ callers[c].pc = "ensureDir"
  /\ \E ok \in BOOLEAN :
       /\ ~ok => ioFailures < MaxIoFailures
       /\ ioFailures' = IF ok THEN ioFailures ELSE ioFailures + 1
       /\ callers' = [callers EXCEPT ![c] =
            IF ok THEN Waits(c, "readIndex", NoFile) ELSE InitializeThrew(c)]
  /\ UNCHANGED <<index, graph, initialized, similarityThreshold, disk, uuids,
                 instances, similarityCall>>
  /\ UNCHANGED OutsideStorage

\* readTextFile reads the file as it is at this moment: a file that another
\* call has opened for writing and not written yet is read as cut short.  It
\* rejects when there is no file, and it can reject on a file that exists
\* (an I/O failure).
FileRead(c) ==
  /\ callers[c].pc \in {"readIndex", "readGraph", "readTopic"}
  /\ callers[c].io.state = "pending"
  /\ \E ok \in BOOLEAN :
       LET file == FileAt(callers[c].pc, callers[c].id)
       IN /\ ~ok => (file.exists /\ ioFailures < MaxIoFailures)
          /\ ioFailures' = IF ok THEN ioFailures ELSE ioFailures + 1
          /\ callers' = [callers EXCEPT ![c].io =
               [state |-> "done", failed |-> ~ok \/ ~file.exists, file |-> file]]
  /\ UNCHANGED <<index, graph, initialized, similarityThreshold, disk, uuids,
                 instances, similarityCall>>
  /\ UNCHANGED OutsideStorage

\* writeTextFile opens the index file or the graph file: the file is created
\* or cut to length 0, and the text is written later.  The open can fail,
\* which leaves the file as it was.
FileOpened(c) ==
  /\ callers[c].pc \in {"saveIndexInit", "saveGraphInit", "saveIndex", "saveGraph"}
  /\ callers[c].io.state = "pending"
  /\ \E ok \in BOOLEAN :
       /\ ~ok => ioFailures < MaxIoFailures
       /\ ioFailures' = IF ok THEN ioFailures ELSE ioFailures + 1
       /\ callers' = [callers EXCEPT ![c].io =
            IF ok THEN [@ EXCEPT !.state = "opened"]
            ELSE [@ EXCEPT !.state = "done", !.failed = TRUE]]
       /\ disk' = IF ok THEN DiskWith(callers[c].pc, CutFile) ELSE disk
  /\ UNCHANGED <<index, graph, initialized, similarityThreshold, uuids,
                 instances, similarityCall>>
  /\ UNCHANGED OutsideStorage

\* writeTextFile writes its text from the start of the file it opened, or
\* fails and leaves the file as it is.  When another call has written the
\* file since this one opened it, a shorter text leaves the end of the other
\* text behind it (no JSON), and a text that is not shorter replaces it.  A
\* topic file has a name of its own and no reader before it is written.
FileWritten(c) ==
  /\ \/ /\ callers[c].pc \in {"saveIndexInit", "saveGraphInit", "saveIndex",
                              "saveGraph"}
        /\ callers[c].io.state = "opened"
     \/ /\ callers[c].pc = "writeTopic"
        /\ callers[c].io.state = "pending"
  /\ \E ok \in BOOLEAN, mixed \in BOOLEAN :
       LET at == callers[c].pc
           mine == callers[c].io.file
           there == FileAt(at, callers[c].id)
           over == at # "writeTopic" /\ there.whole /\ there.data # mine.data
           shorter == over /\ JsonSize(at, mine.data) < JsonSize(at, there.data)
           longer == over /\ JsonSize(at, mine.data) > JsonSize(at, there.data)
       IN /\ ~ok => (~mixed /\ ioFailures < MaxIoFailures)
          /\ mixed => (over /\ ~longer)
          /\ (ok /\ shorter) => mixed
          /\ ioFailures' = IF ok THEN ioFailures ELSE ioFailures + 1
          /\ callers' = [callers EXCEPT ![c].io = [@ EXCEPT !.state = "done",
                                                             !.failed = ~ok]]
          /\ disk' =
               IF ~ok THEN disk
               ELSE IF at = "writeTopic"
               THEN [disk EXCEPT !.topics = Append(@, mine.data)]
               ELSE DiskWith(at, IF mixed THEN CutFile ELSE mine)
  /\ UNCHANGED <<index, graph, initialized, similarityThreshold, uuids,
                 instances, similarityCall>>
  /\ UNCHANGED OutsideStorage

\* initialize: readTextFile(indexPath) has resolved and JSON.parse has
\* returned (this.index = JSON.parse(indexText)), or one of the two has
\* thrown: the catch block makes a new index and calls saveIndex.
IndexLoaded(c) ==
  /\ callers[c].pc = "readIndex"
  /\ callers[c].io.state = "done"
  /\ IF ~ParseFails(callers[c].io)
     THEN /\ index' = JsonParse(callers[c].io)
          /\ callers' = [callers EXCEPT ![c] = Waits(c, "readGraph", NoFile)]
     ELSE /\ index' = EmptyIndex
          /\ callers' = [callers EXCEPT ![c] =
                           Waits(c, "saveIndexInit", File(EmptyIndex))]
  /\ UNCHANGED <<graph, initialized, similarityThreshold, disk, uuids,
                 ioFailures, instances, similarityCall>>
  /\ UNCHANGED OutsideStorage

\* initialize: saveIndex has resolved (readTextFile(graphPath) is called) or
\* rejected (initialize throws).
IndexCreated(c) ==
  /\ callers[c].pc = "saveIndexInit"
  /\ callers[c].io.state = "done"
  /\ callers' = [callers EXCEPT ![c] =
       IF callers[c].io.failed THEN InitializeThrew(c)
       ELSE Waits(c, "readGraph", NoFile)]
  /\ UNCHANGED <<index, graph, initialized, similarityThreshold, disk, uuids,
                 ioFailures, instances, similarityCall>>
  /\ UNCHANGED OutsideStorage

\* initialize: readTextFile(graphPath) has resolved and JSON.parse has
\* returned (this.graph = JSON.parse(graphText), initialized = true), or one
\* of the two has thrown: the catch block makes a new graph and calls
\* saveGraph.
GraphLoaded(c) ==
  /\ callers[c].pc = "readGraph"
  /\ callers[c].io.state = "done"
  /\ IF ~ParseFails(callers[c].io)
     THEN /\ graph' = JsonParse(callers[c].io)
          /\ initialized' = TRUE
          /\ callers' = [callers EXCEPT ![c] = InitializeReturned(c)]
     ELSE /\ graph' = EmptyGraph
          /\ UNCHANGED initialized
          /\ callers' = [callers EXCEPT ![c] =
                           Waits(c, "saveGraphInit", File(EmptyGraph))]
  /\ UNCHANGED <<index, similarityThreshold, disk, uuids, ioFailures,
                 instances, similarityCall>>
  /\ UNCHANGED OutsideStorage

\* initialize: saveGraph has resolved (initialized = true) or rejected
\* (initialize throws).
GraphCreated(c) ==
  /\ callers[c].pc = "saveGraphInit"
  /\ callers[c].io.state = "done"
  /\ IF callers[c].io.failed
     THEN /\ UNCHANGED initialized
          /\ callers' = [callers EXCEPT ![c] = InitializeThrew(c)]
     ELSE /\ initialized' = TRUE
          /\ callers' = [callers EXCEPT ![c] = InitializeReturned(c)]
  /\ UNCHANGED <<index, graph, similarityThreshold, disk, uuids, ioFailures,
                 instances, similarityCall>>
  /\ UNCHANGED OutsideStorage

\* findSimilarResearch(query) after its await of initialize: the rest of
\* the method is synchronous.
FindSimilarReturns(c) ==
  /\ callers[c].pc = "afterInit"
  /\ callers[c].op = "findSimilar"
  /\ callers' = [callers EXCEPT ![c] =
       Ended(c, "return", "",
             findSimilarResearch(index, similarityThreshold, callers[c].query))]
  /\ UNCHANGED <<index, graph, initialized, similarityThreshold, disk, uuids,
                 ioFailures, instances, similarityCall>>
  /\ UNCHANGED OutsideStorage

\* getRelatedResearch(id) after its await of initialize.
GetRelatedReturns(c) ==
  /\ callers[c].pc = "afterInit"
  /\ callers[c].op = "getRelated"
  /\ callers' = [callers EXCEPT ![c] =
       Ended(c, "return", "", getRelatedResearch(index, callers[c].id))]
  /\ UNCHANGED <<index, graph, initialized, similarityThreshold, disk, uuids,
                 ioFailures, instances, similarityCall>>
  /\ UNCHANGED OutsideStorage

\* getResearchById(id) after its await of initialize: null (no value) for an
\* id the index does not have, else readTextFile(entry.path) is called.
GetByIdLooksUp(c) ==
  /\ callers[c].pc = "afterInit"
  /\ callers[c].op = "getById"
  /\ callers' = [callers EXCEPT ![c] =
       IF HasEntry(index, callers[c].id) THEN Waits(c, "readTopic", NoFile)
       ELSE Ended(c, "return", "", << >>)]
  /\ UNCHANGED <<index, graph, initialized, similarityThreshold, disk, uuids,
                 ioFailures, instances, similarityCall>>
  /\ UNCHANGED OutsideStorage

\* getResearchById: readTextFile has resolved with the text of the file, or
\* rejected (null).
TopicRead(c) ==
  /\ callers[c].pc = "readTopic"
  /\ callers[c].io.state = "done"
  /\ callers' = [callers EXCEPT ![c] =
       Ended(c, "return", "",
             IF callers[c].io.failed THEN << >>
             ELSE <<callers[c].io.file.data>>)]
  /\ UNCHANGED <<index, graph, initialized, similarityThreshold, disk, uuids,
                 ioFailures, instances, similarityCall>>
  /\ UNCHANGED OutsideStorage

\* storeResearch(query, content) after its await of initialize: the id is
\* generated and this.findSimilarResearch(query) is called, which awaits
\* initialize.
StoreBegins(c) ==
  /\ callers[c].pc = "afterInit"
  /\ callers[c].op = "store"
  /\ uuids' = uuids + 1
  /\ callers' = [callers EXCEPT ![c] =
                   [@ EXCEPT !.pc = "findSimilar", !.id = Uuids[uuids + 1]]]
  /\ UNCHANGED <<index, graph, initialized, similarityThreshold, disk,
                 ioFailures, instances, similarityCall>>
  /\ UNCHANGED OutsideStorage

\* storeResearch: findSimilarResearch has searched the index and returned;
\* the metadata is made and the topic file is being written.
SimilarFound(c) ==
  /\ callers[c].pc = "findSimilar"
  /\ LET query == callers[c].query
         metadata == Metadata(callers[c].id, query, extractKeywords(query),
                              RelatedOf(index, similarityThreshold, query))
     IN callers' = [callers EXCEPT ![c] =
          [Waits(c, "writeTopic",
                 File([metadata |-> metadata, content |-> callers[c].content]))
             EXCEPT !.metadata = <<metadata>>]]
  /\ UNCHANGED <<index, graph, initialized, similarityThreshold, disk, uuids,
                 ioFailures, instances, similarityCall>>
  /\ UNCHANGED OutsideStorage

\* storeResearch: the topic file is written (or the write has failed and the
\* call throws); the entry is put in the index, the keyword loop runs (and
\* may throw), the graph is updated and saveIndex is called.
TopicWritten(c) ==
  /\ callers[c].pc = "writeTopic"
  /\ callers[c].io.state = "done"
  /\ LET metadata == callers[c].metadata[1]
         updated == UpdateKeywords(index.keywords, metadata.topics, 1, metadata.id)
         index1 == [entries |-> Append(index.entries, metadata),
                    keywords |-> updated.keywords]
     IN IF callers[c].io.failed
        THEN /\ UNCHANGED <<index, graph>>
             /\ callers' = [callers EXCEPT ![c] = Ended(c, "throw", "write", << >>)]
        ELSE /\ index' = index1
             /\ IF updated.failed
                THEN /\ UNCHANGED graph
                     /\ callers' = [callers EXCEPT ![c] =
                                      Ended(c, "throw", "TypeError", << >>)]
                ELSE /\ graph' = updateTopicGraph(graph, metadata.id, metadata.topics,
                                                  metadata.related)
                     /\ callers' = [callers EXCEPT ![c] =
                                      Waits(c, "saveIndex", File(index1))]
  /\ UNCHANGED <<initialized, similarityThreshold, disk, uuids, ioFailures,
                 instances, similarityCall>>
  /\ UNCHANGED OutsideStorage

\* storeResearch: saveIndex has resolved (saveGraph is called) or rejected
\* (the call throws).
IndexSaved(c) ==
  /\ callers[c].pc = "saveIndex"
  /\ callers[c].io.state = "done"
  /\ callers' = [callers EXCEPT ![c] =
       IF callers[c].io.failed THEN Ended(c, "throw", "write", << >>)
       ELSE Waits(c, "saveGraph", File(graph))]
  /\ UNCHANGED <<index, graph, initialized, similarityThreshold, disk, uuids,
                 ioFailures, instances, similarityCall>>
  /\ UNCHANGED OutsideStorage

\* storeResearch: saveGraph has resolved (the metadata is returned) or
\* rejected (the call throws).
GraphSaved(c) ==
  /\ callers[c].pc = "saveGraph"
  /\ callers[c].io.state = "done"
  /\ callers' = [callers EXCEPT ![c] =
       IF callers[c].io.failed THEN Ended(c, "throw", "write", << >>)
       ELSE Ended(c, "return", "", callers[c].metadata)]
  /\ UNCHANGED <<index, graph, initialized, similarityThreshold, disk, uuids,
                 ioFailures, instances, similarityCall>>
  /\ UNCHANGED OutsideStorage

StorageStep(c) ==
  \/ CallStart(c)
  \/ EnsureDirsDone(c)
  \/ FileRead(c)
  \/ FileOpened(c)
  \/ FileWritten(c)
  \/ IndexLoaded(c)
  \/ IndexCreated(c)
  \/ GraphLoaded(c)
  \/ GraphCreated(c)
  \/ FindSimilarReturns(c)
  \/ GetRelatedReturns(c)
  \/ GetByIdLooksUp(c)
  \/ TopicRead(c)
  \/ StoreBegins(c)
  \/ SimilarFound(c)
  \/ TopicWritten(c)
  \/ IndexSaved(c)
  \/ GraphSaved(c)

StorageInitWith(thresholds) ==
  /\ InitRuns(MaxDeviations)
  /\ InitServer
  /\ NoFinder
  /\ NoScrape
  /\ InitStorage
  /\ similarityThreshold \in thresholds
StorageInit == StorageInitWith(Thresholds)

\* One caller: every call is awaited before the next one is made.
SeqCallers == {1}
StorageNext ==
  \/ \E c \in SeqCallers : StorageStep(c)
  \/ NewInstance
StorageSpec == StorageInit /\ [][StorageNext]_vars

\* Two callers: a call of one can be under way while the other makes one.
\* On each instance each caller makes one call, MaxConcStores entries are
\* stored at most, and the instances have the threshold the tests store
\* with.  The second instance is constructed on the directory when the first
\* one has stored and saved one entry and no file operation has failed.
MaxConcStores == 2
ConcThreshold == Quotient(1, 2)
\* The storeResearch calls that have not generated their id yet.
StoresToCome ==
  {c \in Callers : callers[c].op = "store" /\ callers[c].pc # "done"
                   /\ callers[c].id = ""}
ConcCallStart(c) ==
  /\ callers[c].pc = "idle"
  /\ CallStart(c)
  /\ callers'[c].op = "store" => uuids + Cardinality(StoresToCome) < MaxConcStores
StorageConcStep(c) ==
  \/ ConcCallStart(c)
  \/ EnsureDirsDone(c)
  \/ FileRead(c)
  \/ FileOpened(c)
  \/ FileWritten(c)
  \/ IndexLoaded(c)
  \/ IndexCreated(c)
  \/ GraphLoaded(c)
  \/ GraphCreated(c)
  \/ FindSimilarReturns(c)
  \/ GetRelatedReturns(c)
  \/ GetByIdLooksUp(c)
  \/ TopicRead(c)
  \/ StoreBegins(c)
  \/ SimilarFound(c)
  \/ TopicWritten(c)
  \/ IndexSaved(c)
  \/ GraphSaved(c)
Reopened ==
  /\ ioFailures = 0
  /\ Len(disk.topics) = 1
  /\ Len(index.entries) = 1
  /\ disk.indexFile = File(index)
  /\ disk.graphFile = File(graph)
  /\ NewInstance
StorageConcInit == StorageInitWith({ConcThreshold})
StorageConcNext ==
  \/ \E c \in Callers : StorageConcStep(c)
  \/ Reopened
StorageConcSpec == StorageConcInit /\ [][StorageConcNext]_vars

\* ===== calculateSimilarity on its own =====
\* The texts of at most MaxWords written words.
MaxWords == 2
Words == {"capital", "France?", "Capital", "Paris", "the", "AI", "design-pattern"}
RECURSIVE TextsOfLength(_)
TextsOfLength(n) ==
  IF n = 0 THEN {<< >>}
  ELSE {Append(text, word) : text \in TextsOfLength(n - 1), word \in Words}
Texts == UNION {TextsOfLength(n) : n \in 0..MaxWords}

\* storage.calculateSimilarity(query1, query2) on the two texts drawn at the
\* start.
CalculateSimilarity ==
  /\ ~similarityCall.called
  /\ similarityCall' =
       [similarityCall EXCEPT
          !.called = TRUE,
          !.value = calculateSimilarity(similarityCall.query1, similarityCall.query2)]
  /\ UNCHANGED <<index, graph, initialized, similarityThreshold, disk, uuids,
                 ioFailures, instances, callers>>
  /\ UNCHANGED <<runVars, serverVars, finderVars, scrape>>

SimilarityInit ==
  /\ InitRuns(MaxDeviations)
  /\ InitServer
  /\ NoFinder
  /\ NoScrape
  /\ NoStorageInstance
  /\ \E query1 \in Texts, query2 \in Texts :
       similarityCall = [NoSimilarityCall EXCEPT !.query1 = query1, !.query2 = query2]
SimilarityNext == CalculateSimilarity
SimilaritySpec == SimilarityInit /\ [][SimilarityNext]_vars

\* ===== CSS selector finder: runs of runAgent sharing one browser =====
\* Deviations from the base input that one run may make.
FinderDeviations == 1
FinderConcDeviations == 0
\* Signals (SIGINT, SIGTERM) delivered to the process.
MaxSignals == 1

\* The runs of the specification with one run, and of the concurrent one.
FinderSeqRuns == {1}

\* A deviation from the base input is paid from the budget of the run.
FinderPay(f, deviates) ==
  IF deviates THEN [f EXCEPT !.budget = @ - 1] ELSE f
CanPay(f, deviates) == deviates => f.budget > 0

\* runAgent leaves its try block with outcome: the finally block calls
\* closeBrowser, which calls browser.close() when the module variable is set
\* and waits for it; with no browser there is nothing to wait for.
Leave(r, f, outcome) ==
  IF browser # 0
  THEN /\ finder' = [finder EXCEPT ![r] =
                       [f EXCEPT !.pc = "closing", !.pending = outcome,
                                 !.closeBrowserCalls = @ + 1]]
       /\ browsers' = [browsers EXCEPT ![browser] = "closed"]
  ELSE /\ finder' = [finder EXCEPT ![r] =
                       [f EXCEPT !.pc = "done", !.result = outcome,
                                 !.closeBrowserCalls = @ + 1]]
       /\ UNCHANGED browsers

\* The loop test of runAgent with the loop variable at stp.
FinderLoopTest(r, f, stp) ==
  IF stp < FinderMaxSteps
  THEN /\ finder' = [finder EXCEPT ![r] = [f EXCEPT !.step = stp, !.pc = "llm"]]
       /\ UNCHANGED browsers
  ELSE Leave(r, [f EXCEPT !.step = stp],
             FinderFallback(f.lastObservation, f.partialAnswer, f.fallbackAnswer))

\* The observation of the step is appended and the loop continues.
Observe(r, f, observation) ==
  FinderLoopTest(r, [f EXCEPT !.messages = Append(@, ObservationMessage(observation))],
                 f.step + 1)

\* The process has not ended.
Running == ~listener.exited

\* What the rest of the model leaves alone in a step of the selector finder.
OutsideFinder == <<runVars, serverVars, storageVars, scrape>>

\* runAgent(query) of the selector finder up to its first await.
FinderStart(r) ==
  /\ Running
  /\ finder[r].pc = "idle"
  /\ \E query \in FinderQueries, b \in FinderBaseInputs :
       finder' = [finder EXCEPT ![r] =
                    [@ EXCEPT !.pc = "llm",
                              !.messages = << [role |-> "system", content |-> SystemPrompt],
                                              [role |-> "user", content |-> query] >>,
                              !.fallbackAnswer = DefaultFallbackAnswer(query),
                              !.base = b]]
  /\ UNCHANGED <<browser, browsers, listener>>
  /\ UNCHANGED OutsideFinder

\* callLLM returns reply: the loop body handles it, and a tool that needs the
\* browser calls getBrowser, which returns the module variable or starts to
\* launch a browser.
LLMReturns(r) ==
  /\ Running
  /\ finder[r].pc = "llm"
  /\ \E reply \in {x \in FinderReplies : CanPay(finder[r], x # finder[r].base.reply)} :
     \E p \in {FinderProcessReply(reply, finder[r].lastObservation,
                                  finder[r].partialAnswer, finder[r].fallbackAnswer)} :
     \E f1 \in {[FinderPay(finder[r], reply # finder[r].base.reply) EXCEPT
                   !.messages = PushReply(@, reply, p.pushed),
                   !.partialAnswer = p.partial]} :
          CASE p.kind = "return" -> Leave(r, f1, Returned(p.value))
            [] p.kind = "notfound" -> Observe(r, f1, p.value)
            [] p.kind = "toolReturned" ->
                 Observe(r, [f1 EXCEPT !.lastObservation = p.value], p.value)
            [] p.kind = "invoke" ->
                 /\ finder' = [finder EXCEPT ![r] =
                                 IF browser # 0
                                 THEN [f1 EXCEPT !.pc = "page", !.tool = p.tool,
                                                 !.held = browser, !.call = 1]
                                 ELSE [f1 EXCEPT !.pc = "launch", !.tool = p.tool]]
                 /\ UNCHANGED browsers
  /\ UNCHANGED <<browser, listener>>
  /\ UNCHANGED OutsideFinder

\* callLLM throws after its retries: the catch block of the step.
LLMThrows(r) ==
  /\ Running
  /\ finder[r].pc = "llm"
  /\ CanPay(finder[r], TRUE)
  /\ LET f == FinderPay(finder[r], TRUE)
     IN Leave(r, f, FinderFallback(f.lastObservation, f.partialAnswer, f.fallbackAnswer))
  /\ UNCHANGED <<browser, listener>>
  /\ UNCHANGED OutsideFinder

\* A tool has returned text: observation = String(result), lastObservation =
\* observation.
ToolReturned(r, f, text) ==
  Observe(r, [f EXCEPT !.lastObservation = text, !.held = 0, !.call = 0,
                       !.tool = EmptyStr], text)

\* puppeteer.launch of getBrowser resolves or rejects.  The browser launched
\* is assigned to the module variable and handed to the tool, which calls
\* newPage on it; after a first failure the catch block launches with the
\* default path, after a second one getBrowser throws and the tool returns
\* the error text.
LaunchDone(r) ==
  /\ Running
  /\ finder[r].pc \in {"launch", "launch2"}
  /\ \E ok \in BOOLEAN :
       LET f == FinderPay(finder[r], ~ok)
       IN /\ CanPay(finder[r], ~ok)
          /\ IF ok
             THEN /\ browsers' = Append(browsers, "open")
                  /\ browser' = Len(browsers) + 1
                  /\ finder' = [finder EXCEPT ![r] =
                                  [f EXCEPT !.pc = "page", !.held = Len(browsers) + 1,
                                            !.call = 1]]
             ELSE IF f.pc = "launch"
             THEN /\ finder' = [finder EXCEPT ![r] = [f EXCEPT !.pc = "launch2"]]
                  /\ UNCHANGED <<browser, browsers>>
             ELSE /\ ToolReturned(r, f, ToolErrorText(LaunchMessage))
                  /\ UNCHANGED browser
  /\ UNCHANGED listener
  /\ UNCHANGED OutsideFinder

\* The awaited call of the tool on the browser it holds, or on its page,
\* resolves or rejects: the tool makes its next call, returns its text after
\* the last one (page.close), or returns the error text from its catch
\* block.  What a call does is up to puppeteer: it is taken to resolve on an
\* open browser and to reject on a browser that was closed meanwhile, and
\* the other outcome is a deviation, as is an empty text; page.close() on a
\* closed browser may do either.  page.setDefaultNavigationTimeout returns no promise and does not
\* look at the browser: the tool goes on to its next call.
PageCall(r) ==
  /\ Running
  /\ finder[r].pc = "page"
  /\ \E out \in PageOutcomes :
       LET wasClosed == browsers[finder[r].held] = "closed"
           chain == PageCalls(finder[r].tool)
           rejects == out.kind = "throw"
           last == finder[r].call = Len(chain)
           sync == ~CanReject(chain[finder[r].call])
           empty == out = Returned(EmptyStr)
           deviates == IF empty THEN TRUE
                       ELSE IF sync \/ (last /\ wasClosed) THEN FALSE
                       ELSE rejects # wasClosed
           f == FinderPay(finder[r], deviates)
       IN /\ rejects => CanReject(chain[finder[r].call])
          /\ empty => last
          /\ CanPay(finder[r], deviates)
          /\ IF rejects
             THEN ToolReturned(r, f, ToolErrorText(IF wasClosed THEN ClosedMessage
                                                   ELSE out.value))
             ELSE IF finder[r].call < Len(chain)
             THEN /\ finder' = [finder EXCEPT ![r] = [f EXCEPT !.call = @ + 1]]
                  /\ UNCHANGED browsers
             ELSE ToolReturned(r, f, out.value)
  /\ UNCHANGED <<browser, listener>>
  /\ UNCHANGED OutsideFinder

\* browser.close() of closeBrowser resolves: browser = null, and runAgent
\* returns what it left the loop with.  When it rejects, closeBrowser and the
\* finally block throw its error: runAgent rejects with it and the module
\* variable keeps the browser.  In command line mode the catch block of
\* runCliMode, which awaits runAgent, then calls Deno.exit(1).
CloseDone(r) ==
  /\ Running
  /\ finder[r].pc = "closing"
  /\ \E ok \in BOOLEAN :
       LET f == FinderPay(finder[r], ~ok)
       IN /\ CanPay(finder[r], ~ok)
          /\ browser' = IF ok THEN 0 ELSE browser
          /\ finder' = [finder EXCEPT ![r] =
                          [f EXCEPT !.pc = "done",
                                    !.result = IF ok THEN finder[r].pending
                                               ELSE Thrown(CloseMessage)]]
          /\ listener' = IF ~ok /\ ~listener.server
                         THEN [listener EXCEPT !.exited = TRUE, !.code = 1]
                         ELSE listener
  /\ UNCHANGED browsers
  /\ UNCHANGED OutsideFinder

\* The signals the process listens to.
Signals == {"SIGINT", "SIGTERM"}

\* SIGINT or SIGTERM is delivered.  The listener of both is closeBrowser,
\* which calls browser.close() when the module variable is set and waits for
\* it.  In web server mode SIGINT has a second listener, which awaits
\* closeBrowser() (a second call of browser.close() when the variable is
\* set) and calls Deno.exit(0) after the await.  A signal is a deviation from
\* the base history, paid from the budget of run 1.
Signal ==
  /\ Running
  /\ listener.delivered < MaxSignals
  /\ CanPay(finder[1], TRUE)
  /\ finder' = [finder EXCEPT ![1] = FinderPay(@, TRUE)]
  /\ \E sig \in Signals :
       LET exits == listener.server /\ sig = "SIGINT"
           called == IF browser = 0 THEN << >>
                     ELSE IF exits THEN <<"closeBrowser", "exit">>
                     ELSE <<"closeBrowser">>
       IN listener' = [listener EXCEPT
            !.delivered = @ + 1,
            !.closes = @ \o called,
            !.exiting = @ \/ (exits /\ browser = 0)]
  /\ browsers' = IF browser # 0 THEN [browsers EXCEPT ![browser] = "closed"]
                 ELSE browsers
  /\ UNCHANGED browser
  /\ UNCHANGED OutsideFinder

\* A browser.close() called by a listener settles, in the order of the
\* calls.  When it resolves, closeBrowser sets browser = null and returns,
\* and the SIGINT listener of the web server mode goes on after its await.
\* When it rejects, closeBrowser throws before the assignment: the variable
\* keeps the browser, nothing handles the rejected promise of the listener,
\* and Deno ends the process with exit code 1.
SignalCloseDone ==
  /\ Running
  /\ listener.closes # << >>
  /\ \E ok \in BOOLEAN :
       IF ok
       THEN /\ browser' = 0
            /\ listener' = [listener EXCEPT
                 !.closes = Tail(@),
                 !.exiting = @ \/ listener.closes[1] = "exit"]
       ELSE /\ browser' = browser
            /\ listener' = [listener EXCEPT
                 !.closes = Tail(@), !.exited = TRUE, !.code = 1]
  /\ UNCHANGED <<finder, browsers>>
  /\ UNCHANGED OutsideFinder

\* The SIGINT listener of the web server mode calls Deno.exit(0) after its
\* await of closeBrowser().
SignalExit ==
  /\ Running
  /\ listener.exiting
  /\ listener' = [listener EXCEPT !.exiting = FALSE, !.exited = TRUE, !.code = 0]
  /\ UNCHANGED <<finder, browser, browsers>>
  /\ UNCHANGED OutsideFinder

\* runCliMode: the process was started with a query and LLM_API_KEY is not
\* set: Deno.exit(1) before runAgent is called.
CliNoApiKey ==
  /\ Running
  /\ ~listener.server
  /\ finder[1].pc = "idle"
  /\ listener' = [listener EXCEPT !.exited = TRUE, !.code = 1]
  /\ UNCHANGED <<finder, browser, browsers>>
  /\ UNCHANGED OutsideFinder

\* runCliMode after runAgent has returned: writeOutputFile (mkdir,
\* writeTextFile) resolves and Deno.exit(0) ends the process, or it rejects
\* and the catch block calls Deno.exit(1).
CliExit ==
  /\ Running
  /\ ~listener.server
  /\ finder[1].pc = "done"
  /\ finder[1].result.kind = "return"
  /\ \E written \in BOOLEAN :
       /\ CanPay(finder[1], ~written)
       /\ finder' = [finder EXCEPT ![1] = FinderPay(@, ~written)]
       /\ listener' = [listener EXCEPT
            !.exited = TRUE, !.code = IF written THEN 0 ELSE 1]
  /\ UNCHANGED <<browser, browsers>>
  /\ UNCHANGED OutsideFinder

\* A step of a run; after the process has ended there is none.
FinderStep(r) ==
  \/ FinderStart(r)
  \/ LLMReturns(r)
  \/ LLMThrows(r)
  \/ LaunchDone(r)
  \/ PageCall(r)
  \/ CloseDone(r)

\* The listeners of the process.
ListenerStep ==
  \/ Signal
  \/ SignalCloseDone
  \/ SignalExit

\* The end of the process in command line mode.
CliStep ==
  \/ CliNoApiKey
  \/ CliExit

FinderInitWith(deviations) ==
  /\ InitRuns(MaxDeviations)
  /\ InitServer
  /\ NoStorage
  /\ NoScrape
  /\ finder = [r \in Runs |->
                 FinderIdle(CHOOSE b \in FinderBaseInputs : TRUE, deviations)]
  /\ browser = 0
  /\ browsers = << >>

\* One run of the selector finder at a time, started from the command line
\* (runCliMode) or by a request to the web server.
FinderInit ==
  /\ FinderInitWith(FinderDeviations)
  /\ \E server \in BOOLEAN : listener = [NoSignal EXCEPT !.server = server]
FinderNext ==
  \/ \E r \in FinderSeqRuns : FinderStep(r)
  \/ ListenerStep
  \/ CliStep
FinderSpec == FinderInit /\ [][FinderNext]_vars

\* Two runs of the selector finder served at the same time: the handler of
\* the server awaits runAgent for each request and requests are handled
\* concurrently, so the runs interleave at their await points.  Failures of
\* the provider are left out here (no run deviates from its base input), and
\* no signal is delivered.
FinderConcInit ==
  /\ FinderInitWith(FinderConcDeviations)
  /\ listener = [NoSignal EXCEPT !.server = TRUE]
FinderConcStep(r) ==
  \/ FinderStart(r)
  \/ LLMReturns(r)
  \/ LaunchDone(r)
  \/ PageCall(r)
  \/ CloseDone(r)
FinderConcNext == \E r \in Runs : FinderConcStep(r)
FinderConcSpec == FinderConcInit /\ [][FinderConcNext]_vars

\* ===== Scraping agent: calls of ScrapeURL =====
\* run returns outcome.
ScrapeEnd(s, outcome) ==
  scrape' = [s EXCEPT !.pc = "done", !.result = outcome, !.held = 0]

\* A call inside the inner try block rejects: the catch block closes the
\* browser before it throws the error on.
ScrapeInnerCatch(call) ==
  scrape' = [scrape EXCEPT !.pc = "closeAfterError",
                           !.pending = Thrown(ScrapeMessage(call))]

\* run(input) up to its first await: JSON.parse, the test of config.url and
\* the call of puppeteer.launch.
ScrapeCall ==
  /\ scrape.pc \in {"idle", "done"}
  /\ scrape.calls < MaxScrapeCalls
  /\ \E input \in ScrapeInputs :
       LET s == [scrape EXCEPT !.calls = @ + 1, !.config = input.config,
                               !.result = ScrapeIdle.result,
                               !.pending = ScrapeIdle.pending]
       IN IF ~input.parses
          THEN ScrapeEnd(s, Returned(ScrapeErrorText(SyntaxMessage)))
          ELSE IF Len(input.config.url) = 0
          THEN ScrapeEnd(s, Returned(ScrapeErrorText(UrlRequiredMessage)))
          ELSE scrape' = [s EXCEPT !.pc = "launch"]
  /\ UNCHANGED <<runVars, serverVars, storageVars, finderVars>>

\* puppeteer.launch resolves with a new browser, or rejects: the outer catch
\* block returns the error text.
ScrapeLaunchDone ==
  /\ scrape.pc = "launch"
  /\ \E ok \in BOOLEAN :
       IF ok
       THEN scrape' = [scrape EXCEPT !.browsers = Append(@, "open"),
                                     !.held = Len(scrape.browsers) + 1,
                                     !.pc = ConfigureCalls[1]]
       ELSE ScrapeEnd(scrape, Returned(ScrapeErrorText(ScrapeMessage("launch"))))
  /\ UNCHANGED <<runVars, serverVars, storageVars, finderVars>>

\* browser.newPage, page.setUserAgent or page.setViewport resolves or
\* rejects.  These calls are outside the inner try block: a rejection goes to
\* the outer catch block, which returns the error text.
ScrapeConfigureDone ==
  /\ \E n \in 1..Len(ConfigureCalls) :
       /\ scrape.pc = ConfigureCalls[n]
       /\ \E ok \in BOOLEAN :
            IF ok
            THEN scrape' = [scrape EXCEPT !.pc = IF n < Len(ConfigureCalls)
                                                 THEN ConfigureCalls[n + 1]
                                                 ELSE "goto"]
            ELSE ScrapeEnd(scrape, Returned(ScrapeErrorText(ScrapeMessage(ConfigureCalls[n]))))
  /\ UNCHANGED <<runVars, serverVars, storageVars, finderVars>>

\* page.goto resolves or rejects.
ScrapeGotoDone ==
  /\ scrape.pc = "goto"
  /\ \E ok \in BOOLEAN :
       IF ok
       THEN scrape' = [scrape EXCEPT !.pc = IF Len(scrape.config.waitFor) > 0
                                            THEN "waitForSelector"
                                            ELSE ExtractStart(scrape.config)]
       ELSE ScrapeInnerCatch("goto")
  /\ UNCHANGED <<runVars, serverVars, storageVars, finderVars>>

\* page.waitForSelector resolves or rejects.
ScrapeWaitDone ==
  /\ scrape.pc = "waitForSelector"
  /\ \E ok \in BOOLEAN :
       IF ok
       THEN scrape' = [scrape EXCEPT !.pc = ExtractStart(scrape.config)]
       ELSE ScrapeInnerCatch("waitForSelector")
  /\ UNCHANGED <<runVars, serverVars, storageVars, finderVars>>

\* page.$(config.selector) resolves with an element or with null, or rejects.
ScrapeQueryDone ==
  /\ scrape.pc = "$"
  /\ \E out \in {"element", "null", "reject"} :
       CASE out = "element" -> scrape' = [scrape EXCEPT !.pc = "evaluate"]
         [] out = "null" ->
              scrape' = [scrape EXCEPT
                           !.pc = "close",
                           !.pending = Returned(NoElementText(scrape.config.selector))]
         [] out = "reject" -> ScrapeInnerCatch("$")
  /\ UNCHANGED <<runVars, serverVars, storageVars, finderVars>>

\* page.evaluate or element.evaluate resolves with the text read, or rejects.
ScrapeEvaluateDone ==
  /\ scrape.pc = "evaluate"
  /\ \/ \E text \in ScrapeTexts :
          scrape' = [scrape EXCEPT !.pc = "close", !.pending = Returned(text)]
     \/ ScrapeInnerCatch("evaluate")
  /\ UNCHANGED <<runVars, serverVars, storageVars, finderVars>>

\* browser.close() resolves or rejects.  After the result was read (line
\* 178): run returns the result, or the rejection goes to the catch block of
\* the inner try, which calls browser.close() again.  In the catch block
\* (line 181): the error caught is thrown on to the outer catch block, or the
\* rejection of this close goes there in its place; run returns the text of
\* the one or the other, and the browser stays open when the close rejected.
ScrapeCloseDone ==
  /\ scrape.pc \in {"close", "closeAfterError"}
  /\ \E ok \in BOOLEAN :
       LET s == [scrape EXCEPT !.browsers[scrape.held] = "closed"]
       IN IF scrape.pc = "close"
          THEN IF ok THEN ScrapeEnd(s, Returned(ScrapeResult(scrape.pending.value)))
               ELSE ScrapeInnerCatch("close")
          ELSE IF ok THEN ScrapeEnd(s, Returned(ScrapeErrorText(scrape.pending.value)))
               ELSE ScrapeEnd(scrape, Returned(ScrapeErrorText(ScrapeMessage("close"))))
  /\ UNCHANGED <<runVars, serverVars, storageVars, finderVars>>

ScrapeInit == InitWith(MaxDeviations)
ScrapeNext ==
  \/ ScrapeCall
  \/ ScrapeLaunchDone
  \/ ScrapeConfigureDone
  \/ ScrapeGotoDone
  \/ ScrapeWaitDone
  \/ ScrapeQueryDone
  \/ ScrapeEvaluateDone
  \/ ScrapeCloseDone
ScrapeSpec == ScrapeInit /\ [][ScrapeNext]_vars

\* ===== Claims about one sequential run (run 1) =====
\* s is an initial part of t.
IsPrefix(s, t) == Len(s) <= Len(t) /\ SubSeq(t, 1, Len(s)) = s

\* callOpenRouter returns a reply in this step; the reply is NewReply.
ReplyArrives == Len(replies'[1]) = Len(replies[1]) + 1
NewReply == replies'[1][Len(replies'[1])]

\* tool.run finishes in this step; what it did is NewToolResult.
ToolFinishes == Len(toolResults'[1]) = Len(toolResults[1]) + 1
NewToolResult == toolResults'[1][Len(toolResults'[1])]

\* The reply holds an "Answer:" marker.
HasAnswerMarker(reply) == \E a \in 1..Len(reply) : reply[a] = "Answer:"

\* The reply holds an "Answer:" marker followed by text that is not all white
\* space.
HasNonEmptyAnswer(reply) ==
  \E a \in 1..Len(reply) :
     reply[a] = "Answer:" /\ \E i \in (a + 1)..Len(reply) : ~IsSpace(reply[i])

\* The text from after the (first) marker to the end of the reply, trimmed.
TextAfterMarker(reply) ==
  LET a == CHOOSE i \in 1..Len(reply) :
             reply[i] = "Answer:" /\ \A j \in 1..(i - 1) : reply[j] # "Answer:"
  IN Trim(SubSeq(reply, a + 1, Len(reply)))

\* The spellings of the registered tool name that differ in case only.
SonarSpellings == {<<"PerplexitySonar">>, <<"perplexitysonar">>, <<"PERPLEXITYSONAR">>}

\* Fallback text exists in the current state of run 1.
FallbackExists == Len(lastObservation) > 0 \/ Len(partialAnswer[1]) > 0

\* The step after this one starts, or the step limit ends the run: how the
\* loop goes on after an observation has been appended.
LoopGoesOn ==
  /\ step'[1] = step[1] + 1
  /\ IF step[1] + 1 < MAX_STEPS
     THEN pc'[1] = "fetch" /\ calls'[1] = calls[1] + 1 /\ result'[1] = result[1]
     ELSE /\ pc'[1] = "done"
          /\ result'[1].kind = "throw" => result'[1].value = StepLimitMessage

\* The current callOpenRouter of run 1 has returned a reply.
CallReturned == calls[1] > 0 /\ Len(replies[1]) = calls[1]

\* C1: one run makes at most MAX_STEPS completion calls, its step counter
\* never decreases, and the run reaches a terminal outcome: it returns a
\* string or it throws.
C1_BoundedStepsAndTermination ==
  /\ [](calls[1] <= MAX_STEPS)
  /\ [][step'[1] >= step[1]]_vars
  /\ <>(pc[1] = "done" /\ result[1].kind \in {"return", "throw"})

C1_Witness ==
  /\ pc[1] = "done"
  /\ calls[1] = MAX_STEPS
  /\ step[1] = MAX_STEPS
  /\ result[1].kind = "return"

\* C2: a reply with an "Answer:" marker followed by non-empty trimmed content
\* makes runAgent return exactly the trimmed text from after the marker to the
\* end of the reply, with no further completion call and no tool invocation.
C2_AnswerIsReturned ==
  /\ [][ReplyArrives /\ HasNonEmptyAnswer(NewReply) =>
          /\ pc'[1] = "done"
          /\ result'[1] = Returned(TextAfterMarker(NewReply))
          /\ calls'[1] = calls[1]
          /\ requests'[1] = requests[1]
          /\ toolCalls'[1] = toolCalls[1]]_vars
  /\ [][pc[1] = "done" => UNCHANGED <<calls, requests, toolCalls, result>>]_vars

C2_Witness ==
  /\ pc[1] = "done"
  /\ step[1] > 0
  /\ replies[1][Len(replies[1])] = Ans(<<"4">>) \o <<"\n">> \o Ans(<<"x">>)
  /\ result[1] = Returned(<<"4", "\n", "Answer:", " ", "x">>)

\* C3 as stated: a reply without a non-empty Answer that contains
\* Action: Tool[input], Tool being a registered name up to case, makes the loop
\* invoke that tool once with the characters between the brackets unchanged,
\* and the tool's result is appended as Observation: <result>.
C3_ToolGetsInputVerbatim ==
  /\ [][(/\ ReplyArrives
         /\ ~HasNonEmptyAnswer(NewReply)
         /\ ActionMatch(NewReply).found
         /\ Trim(ActionMatch(NewReply).g1) \in SonarSpellings) =>
          /\ pc'[1] = "tool"
          /\ toolCalls'[1] =
               Append(toolCalls[1], <<Sonar, ActionMatch(NewReply).g2>>)]_vars
  /\ [][ToolFinishes /\ NewToolResult.kind = "return" =>
          /\ messages'[1] =
               Append(messages[1], ObservationMessage(NewToolResult.value))
          /\ toolCalls'[1] = toolCalls[1]]_vars

\* The reply Action: PerplexitySonar[ x\n] has arrived: the tool was invoked
\* with "x", which is not the text between the brackets, and its result is the
\* next observation.
C3_Witness ==
  /\ pc[1] = "fetch"
  /\ step[1] = 1
  /\ replies[1] = <<Act(Sonar, <<" ", "x", "\n">>)>>
  /\ ActionMatch(replies[1][1]).g2 = <<" ", "x", "\n">>
  /\ toolCalls[1] = <<<<Sonar, <<"x">>>>>>
  /\ toolCalls[1][1][2] # ActionMatch(replies[1][1]).g2
  /\ messages[1][4] = ObservationMessage(<<"4", "2">>)

\* C4: an Action that names no registered tool does not throw: the
\* observation Tool "<name>" not found is appended, no tool is invoked, and the
\* loop goes on (the next step starts, or the step limit ends the run).
C4_UnknownToolIsObserved ==
  [][(/\ ReplyArrives
      /\ ~HasNonEmptyAnswer(NewReply)
      /\ ~(HasAnswerMarker(NewReply) /\ FallbackExists)
      /\ ActionMatch(NewReply).found
      /\ Trim(ActionMatch(NewReply).g1) \notin SonarSpellings) =>
       /\ messages'[1] = messages[1] \o
            << [role |-> "assistant", content |-> NewReply],
               [role |-> "system",
                content |-> <<"Observation: ", "Tool \"">>
                            \o Trim(ActionMatch(NewReply).g1)
                            \o <<"\" not found">>] >>
       /\ toolCalls'[1] = toolCalls[1]
       /\ toolResults'[1] = toolResults[1]
       /\ LoopGoesOn]_vars

C4_Witness ==
  /\ pc[1] = "fetch"
  /\ step[1] = 1
  /\ replies[1] = <<Act(<<"WebSearch">>, <<"x">>)>>
  /\ toolCalls[1] = << >>
  /\ messages[1][4].content = <<"Observation: ", "Tool \"", "WebSearch", "\" not found">>

\* C5: when tool.run throws, the observation Error: <message> is appended and
\* the loop goes on (the next step starts, or the step limit ends the run).
C5_ToolFailureIsObserved ==
  [][ToolFinishes /\ NewToolResult.kind = "throw" =>
       /\ messages'[1] = Append(messages[1],
            [role |-> "system",
             content |-> <<"Observation: ", "Error: ">> \o NewToolResult.value])
       /\ LoopGoesOn]_vars

C5_Witness ==
  /\ pc[1] = "fetch"
  /\ step[1] = 1
  /\ toolResults[1] = <<Thrown(<<"boom">>)>>
  /\ messages[1][4].content = <<"Observation: ", "Error: ", "boom">>

\* The positions of the observations appended to the transcript of run 1.
ObservationIndexes ==
  {i \in 3..Len(messages[1]) :
     messages[1][i].role = "system" /\ messages[1][i].content[1] = "Observation: "}

\* The text of the observation appended last.
LastObservationText ==
  LET i == CHOOSE k \in ObservationIndexes : \A j \in ObservationIndexes : j <= k
  IN Tail(messages[1][i].content)

\* C6: when the step limit is reached and at least one observation was made
\* in the run, runAgent returns the fallback prefix followed by an observation
\* of the run and does not throw the step-limit error.
C6_StepLimitFallsBackOnObservation ==
  (pc[1] = "done" /\ step[1] = MAX_STEPS /\ ObservationIndexes # {}) =>
    \E i \in ObservationIndexes :
       result[1] = Returned(ObservationPrefix \o Tail(messages[1][i].content))

C6_Witness ==
  /\ pc[1] = "done"
  /\ step[1] = MAX_STEPS
  /\ Cardinality(ObservationIndexes) = MAX_STEPS
  /\ LastObservationText = <<"Tool \"", "WebSearch", "\" not found">>
  /\ result[1] = Thrown(StepLimitMessage)

\* C7: when the step limit is reached in a run in which no tool has returned
\* text (every tool.run threw or returned the empty string, or no tool was
\* invoked) and no thought was recorded, runAgent throws the step-limit error
\* and returns nothing.
C7_StepLimitThrows ==
  (/\ pc[1] = "done"
   /\ step[1] = MAX_STEPS
   /\ \A i \in 1..Len(toolResults[1]) :
        ~(toolResults[1][i].kind = "return" /\ Len(toolResults[1][i].value) > 0)
   /\ Len(partialAnswer[1]) = 0) =>
    result[1] = Thrown(StepLimitMessage)

C7_Witness ==
  /\ pc[1] = "done"
  /\ step[1] = MAX_STEPS
  /\ calls[1] = MAX_STEPS
  /\ Len(toolResults[1]) = MAX_STEPS
  /\ Len(partialAnswer[1]) = 0
  /\ result[1] = Thrown(StepLimitMessage)

\* C8: when callOpenRouter returns after N failures that were all retryable
\* (429 or status >= 500), it has sent N + 1 requests and has waited
\* RETRY_DELAY_MS * k before its k-th retry.
C8_LinearBackoff ==
  (CallReturned /\ \A s \in BagToSet(failures[1]) : s = 429 \/ s >= 500) =>
    LET n == BagCardinality(failures[1])
    IN /\ requests[1] = n + 1
       /\ delays[1] = [k \in 1..n |-> RETRY_DELAY_MS * k]

C8_Witness ==
  /\ CallReturned
  /\ failures[1] = SetToBag({500}) (+) SetToBag({500}) (+) SetToBag({500})
  /\ requests[1] = 4
  /\ delays[1] = <<1000, 2000, 3000>>

\* C9: a first response with a non-retryable status (not 429, below 500) ends
\* callOpenRouter at once: one request sent, no delay waited.
C9_ClientErrorFailsAtOnce ==
  (/\ BagCardinality(failures[1]) = 1
   /\ \E s \in BagToSet(failures[1]) : s # TransportFailure /\ s # 429 /\ s < 500) =>
    pc[1] = "done" /\ requests[1] = 1 /\ delays[1] = << >>

C9_Witness ==
  /\ pc[1] = "fetch"
  /\ failures[1] = SetToBag({400})
  /\ requests[1] = 2
  /\ delays[1] = <<1000>>

\* C10: an empty or white-space-only completion is not retried; in the same
\* step the run returns the lastObservation fallback, else the partialAnswer
\* fallback, else it fails.
C10_EmptyCompletionFallsBack ==
  [][ReplyArrives /\ Trim(NewReply) = EmptyStr =>
       /\ pc'[1] = "done"
       /\ requests'[1] = requests[1]
       /\ calls'[1] = calls[1]
       /\ IF Len(lastObservation) > 0
          THEN result'[1] = Returned(ObservationPrefix \o lastObservation)
          ELSE IF Len(partialAnswer[1]) > 0
          THEN result'[1] = Returned(PartialPrefix \o partialAnswer[1])
          ELSE result'[1].kind = "throw"]_vars

C10_Witness ==
  /\ pc[1] = "done"
  /\ Len(replies[1]) > 0
  /\ replies[1][Len(replies[1])] = <<" ", "\n">>
  /\ Len(lastObservation) = 0
  /\ partialAnswer[1] = <<"\n", "\n", "t", "\n", "Action:", " ", "WebSearch", "[", "x", "]">>
  /\ result[1] = Returned(PartialPrefix \o partialAnswer[1])
  /\ requests[1] = 1

\* C11: a reply whose "Answer:" marker is followed by white space only, in a
\* run that holds a non-empty lastObservation, ends the run: runAgent returns
\* the fallback prefix followed by that observation, which is not the empty
\* string, and no tool is invoked and no further completion call is made.
C11_EmptyAnswerFallsBackOnObservation ==
  [][(/\ ReplyArrives
      /\ HasAnswerMarker(NewReply)
      /\ ~HasNonEmptyAnswer(NewReply)
      /\ Len(lastObservation) > 0) =>
       /\ pc'[1] = "done"
       /\ result'[1] = Returned(ObservationPrefix \o lastObservation)
       /\ Len(result'[1].value) > 1
       /\ calls'[1] = calls[1]
       /\ toolCalls'[1] = toolCalls[1]]_vars

C11_Witness ==
  /\ pc[1] = "done"
  /\ Len(replies[1]) > 1
  /\ replies[1][Len(replies[1])] = Ans(<<" ", "\n">>)
  /\ lastObservation = <<"4", "2">>
  /\ result[1] = Returned(ObservationPrefix \o <<"4", "2">>)

\* The reply is a Thought followed by an Action on a registered tool.
IsThoughtThenAction(reply) ==
  /\ ThoughtMatch(reply).found
  /\ ~HasAnswerMarker(reply)
  /\ ActionMatch(reply).found
  /\ Trim(ActionMatch(reply).g1) \in SonarSpellings

\* The reply is a Thought followed by "Answer: 4".
IsThoughtThenAnswer4(reply) ==
  /\ ThoughtMatch(reply).found
  /\ HasAnswerMarker(reply)
  /\ TextAfterMarker(reply) = <<"4">>

\* What the i-th finished tool.run of run 1 left as its observation.
ObservationOf(i) ==
  IF toolResults[1][i].kind = "return" THEN toolResults[1][i].value
  ELSE <<"Error: ">> \o toolResults[1][i].value

\* C12: when the first reply of a run is a Thought plus an Action on a
\* registered tool and the second reply is a Thought plus "Answer: 4", the run
\* returns "4" after exactly 2 completion calls and exactly 1 tool invocation,
\* and the transcript the second completion call was given ends with the
\* observation of that tool invocation.
C12_ThoughtActionThenAnswer ==
  (/\ Len(replies[1]) >= 2
   /\ IsThoughtThenAction(replies[1][1])
   /\ IsThoughtThenAnswer4(replies[1][2])) =>
    /\ pc[1] = "done"
    /\ result[1] = Returned(<<"4">>)
    /\ calls[1] = 2
    /\ Len(replies[1]) = 2
    /\ Len(toolCalls[1]) = 1
    /\ Len(toolResults[1]) = 1
    /\ Len(messages[1]) = 5
    /\ messages[1][3] = [role |-> "assistant", content |-> replies[1][1]]
    /\ messages[1][4] = [role |-> "system",
                         content |-> <<"Observation: ">> \o ObservationOf(1)]
    /\ messages[1][5] = [role |-> "assistant", content |-> replies[1][2]]

C12_Witness ==
  /\ pc[1] = "done"
  /\ replies[1] = <<Tht(<<"t">>) \o Act(Sonar, <<"x">>), Tht(<<"t">>) \o Ans(<<"4">>)>>
  /\ toolCalls[1] = <<<<Sonar, <<"x">>>>>>
  /\ toolResults[1] = <<Returned(<<"4", "2">>)>>
  /\ calls[1] = 2
  /\ result[1] = Returned(<<"4">>)

\* ===== Claims about concurrent runs =====
\* What run r itself has observed last: the text its last returning tool.run
\* gave, the empty string when none has returned.
OwnLastObservation(r) ==
  LET returned == {i \in 1..Len(toolResults[r]) : toolResults[r][i].kind = "return"}
  IN IF returned = {} THEN EmptyStr
     ELSE toolResults[r][CHOOSE i \in returned : \A j \in returned : j <= i].value

\* C13: concurrent runs are independent.  While a run is in progress the
\* lastObservation it would read is the one it wrote itself (no other run has
\* cleared or replaced it), and a run that ended with the observation fallback
\* returned its own observation.
C13_RunsAreIndependent ==
  \A r \in Runs :
     /\ pc[r] \in {"fetch", "delay", "tool"} => lastObservation = OwnLastObservation(r)
     /\ (pc[r] = "done" /\ result[r].kind = "return"
           /\ Len(result[r].value) > 0 /\ Head(result[r].value) = Head(ObservationPrefix)) =>
          result[r].value = ObservationPrefix \o OwnLastObservation(r)
     /\ (pc[r] = "done" /\ Len(OwnLastObservation(r)) = 0 /\ Len(partialAnswer[r]) = 0
           /\ step[r] = MAX_STEPS) =>
          result[r] = Thrown(StepLimitMessage)

\* Run 2 never received a tool result and ends with the observation of run 1.
C13_Witness ==
  /\ pc[2] = "done"
  /\ toolResults[2] = << >>
  /\ Len(toolResults[1]) > 0
  /\ result[2] = Returned(ObservationPrefix \o <<"4", "2">>)


\* C23: a reply that holds both an "Answer:" marker with non-empty content and
\* an "Action: Name[input]" segment, in either order, ends the run with the
\* answer (the trimmed text from after the marker to the end of the reply),
\* and no tool is invoked for it.
C23_AnswerBeforeAction ==
  [][(ReplyArrives /\ HasNonEmptyAnswer(NewReply) /\ ActionMatch(NewReply).found) =>
       /\ pc'[1] = "done"
       /\ result'[1] = Returned(TextAfterMarker(NewReply))
       /\ toolCalls'[1] = toolCalls[1]
       /\ toolResults'[1] = toolResults[1]
       /\ messages'[1] = Append(messages[1], [role |-> "assistant", content |-> NewReply])]_vars

\* The Action segment comes first and names the registered tool; the run has
\* returned the answer in its first step and no tool has run.
C23_Witness ==
  /\ pc[1] = "done"
  /\ replies[1] = <<Act(Sonar, <<"x">>) \o <<"\n">> \o Ans(<<"4">>)>>
  /\ result[1] = Returned(<<"4">>)
  /\ toolCalls[1] = << >>

\* The run ends in this step at a point where the fallback is consulted: by
\* anything but a non-empty answer.
EndsByFallbackDecision ==
  /\ pc[1] # "done"
  /\ pc'[1] = "done"
  /\ ~(ReplyArrives /\ HasNonEmptyAnswer(NewReply))

\* C24: wherever the fallback is consulted (empty completion, empty Answer,
\* reply with no Action and no Answer, error in a step, step limit), a
\* non-empty lastObservation is returned with the observation prefix, a
\* non-empty partialAnswer is returned with the partial prefix only when
\* lastObservation is empty, and never while lastObservation is non-empty.
C24_FallbackPriority ==
  [][EndsByFallbackDecision =>
       /\ Len(lastObservation') > 0
            => result'[1] = Returned(ObservationPrefix \o lastObservation')
       /\ (Len(lastObservation') = 0 /\ Len(partialAnswer'[1]) > 0)
            => result'[1] = Returned(PartialPrefix \o partialAnswer'[1])
       /\ (result'[1].kind = "return" /\ Len(result'[1].value) > 0
            /\ Head(result'[1].value) = Head(PartialPrefix))
            => Len(lastObservation') = 0]_vars

\* A reply with a thought and no action arrives after a tool result: both
\* fallback texts exist and the observation is the one returned.
C24_Witness ==
  /\ pc[1] = "done"
  /\ Len(replies[1]) = 2
  /\ replies[1][2] = <<"Thought:", " ", "t">>
  /\ Len(partialAnswer[1]) > 0
  /\ lastObservation = <<"4", "2">>
  /\ result[1] = Returned(ObservationPrefix \o <<"4", "2">>)

\* The completion call of the step fails for good in this step: a request
\* fails and callOpenRouter throws instead of waiting for another request.
ProviderErrorEnds ==
  /\ pc[1] = "fetch"
  /\ pc'[1] = "done"
  /\ failures'[1] # failures[1]

\* The outcome of the request that failed in this step, and the Error that
\* callOpenRouter throws for it.
FailedWith ==
  CHOOSE f \in Statuses \cup {TransportFailure} :
    failures'[1] = failures[1] (+) SetToBag({f})
ProviderErrorOf(f) ==
  IF f = TransportFailure THEN TransportMessage ELSE ApiErrorMessage(f)

\* C25: when the completion call of a step fails with a provider error after
\* its retries, the run returns the fallback answer if lastObservation or
\* partialAnswer is non-empty; only when both are empty is the provider error
\* thrown to the caller of runAgent, and it is the very error callOpenRouter
\* threw.
C25_ProviderErrorFallsBack ==
  [][ProviderErrorEnds =>
       /\ FallbackExists
            => /\ result'[1].kind = "return"
               /\ result'[1] = IF Len(lastObservation) > 0
                               THEN Returned(ObservationPrefix \o lastObservation)
                               ELSE Returned(PartialPrefix \o partialAnswer[1])
       /\ ~FallbackExists => result'[1] = Thrown(ProviderErrorOf(FailedWith))
       /\ result'[1].kind = "throw" => ~FallbackExists]_vars

\* A run whose second completion call failed four times and that returned the
\* observation of its first step.
C25_Witness ==
  /\ pc[1] = "done"
  /\ Len(replies[1]) = 1
  /\ BagCardinality(failures[1]) = MAX_RETRIES + 1
  /\ Len(lastObservation) > 0
  /\ result[1] = Returned(ObservationPrefix \o lastObservation)

\* C26: a reply whose "Answer:" marker is followed by white space only,
\* arriving when there is no fallback text, has no tool invoked for it, even
\* if it holds an Action: Name[input] segment before the marker.
C26_EmptyAnswerInvokesNoTool ==
  [][(/\ ReplyArrives
      /\ HasAnswerMarker(NewReply)
      /\ ~HasNonEmptyAnswer(NewReply)
      /\ ~FallbackExists)
       => /\ pc'[1] # "tool"
          /\ toolCalls'[1] = toolCalls[1]]_vars

\* The first reply is an Action segment followed by an empty Answer, and
\* PerplexitySonar is being run for it.
C26_Witness ==
  /\ pc[1] = "tool"
  /\ replies[1] = <<Act(Sonar, <<"x">>) \o <<"\n">> \o Ans(<<" ">>)>>
  /\ toolCalls[1] = <<<<Sonar, <<"x">>>>>>

\* The reply that arrives in this step has neither a non-empty Answer nor an
\* Action: Name[input] segment.
NeitherAnswerNorAction ==
  /\ ReplyArrives
  /\ ~HasNonEmptyAnswer(NewReply)
  /\ ~ActionMatch(NewReply).found

\* The run ends in this step by returning the fallback answer, or the trimmed
\* reply when there is no fallback text, and no further request is sent.  The
\* fallback text is what lastObservation and partialAnswer hold once the step
\* has recorded the Thought of the reply.
EndsWithFallbackOrReply ==
  /\ pc'[1] = "done"
  /\ requests'[1] = requests[1]
  /\ calls'[1] = calls[1]
  /\ result'[1] =
       IF Len(lastObservation') > 0
       THEN Returned(ObservationPrefix \o lastObservation')
       ELSE IF Len(partialAnswer'[1]) > 0
       THEN Returned(PartialPrefix \o partialAnswer'[1])
       ELSE Returned(Trim(NewReply))

\* C27 as stated: for every reply with neither a non-empty Answer nor a
\* parseable Action the run ends in that step with the fallback answer or the
\* trimmed reply, and never throws.  An empty or white-space-only reply has
\* neither, and without fallback text the step throws for it.
C27_NoAnswerNoActionReturns ==
  [][NeitherAnswerNorAction => EndsWithFallbackOrReply]_vars

\* C27: for a reply that is not empty or white-space-only and has neither a
\* non-empty Answer nor a parseable Action, the run ends in that step: it
\* returns the fallback answer if fallback text exists, else the reply
\* trimmed; it does not throw and sends no further request.
C27_NonBlankNoAnswerNoActionReturns ==
  [][(NeitherAnswerNorAction /\ Trim(NewReply) # EmptyStr)
       => EndsWithFallbackOrReply]_vars

\* The first reply is " x ": no fallback text, the run returned "x".
C27_Witness ==
  /\ pc[1] = "done"
  /\ replies[1] = <<<<" ", "x", " ">>>>
  /\ Len(lastObservation) = 0
  /\ Len(partialAnswer[1]) = 0
  /\ result[1] = Returned(<<"x">>)

\* An Action was dispatched in this step: its observation is the message the
\* step appended last.
ObservationAppended ==
  /\ Len(messages'[1]) > Len(messages[1])
  /\ messages'[1][Len(messages'[1])].role = "system"
  /\ Head(messages'[1][Len(messages'[1])].content) = "Observation: "
AppendedObservation == Tail(messages'[1][Len(messages'[1])].content)

\* C28: after every Action dispatch lastObservation equals the observation
\* text appended to the transcript for it, the Tool "<name>" not found and
\* Error: <message> observations included.
C28_LastObservationIsAppendedObservation ==
  [][ObservationAppended => lastObservation' = AppendedObservation]_vars

\* WebSearch is not registered: the observation is in the transcript and
\* lastObservation is still empty.
C28_Witness ==
  /\ pc[1] = "fetch"
  /\ replies[1] = <<Act(<<"WebSearch">>, <<"x">>)>>
  /\ messages[1][Len(messages[1])].content
       = <<"Observation: ", "Tool \"", "WebSearch", "\" not found">>
  /\ lastObservation = EmptyStr

\* The step looks for a Thought in the reply that arrives: the reply is not
\* blank and the step has not returned for its Answer or for the fallback of
\* an empty Answer.
ThoughtLookedFor ==
  /\ ReplyArrives
  /\ ~IsEmptyReply(NewReply)
  /\ ~HasNonEmptyAnswer(NewReply)
  /\ ~(HasAnswerMarker(NewReply) /\ FallbackExists)

\* The trimmed Thought of the reply that arrives.
NewThought == Trim(ThoughtMatch(NewReply).g1)

\* C29: within one run partialAnswer only grows by appending: the previous
\* value stays a prefix in every step, a non-empty Thought that the step
\* detects is appended to it after a blank line, and nothing else changes it.
C29_PartialAnswerGrowsByAppending ==
  [][/\ IsPrefix(partialAnswer[1], partialAnswer'[1])
     /\ (ThoughtLookedFor /\ ThoughtMatch(NewReply).found /\ Len(NewThought) > 0)
          => partialAnswer'[1] = partialAnswer[1] \o <<"\n", "\n">> \o NewThought
     /\ partialAnswer'[1] # partialAnswer[1]
          => /\ ThoughtLookedFor
             /\ ThoughtMatch(NewReply).found
             /\ Len(NewThought) > 0]_vars

\* Two replies with a Thought each: the second Thought follows the first.
C29_Witness ==
  /\ Len(replies[1]) = 2
  /\ partialAnswer[1] = <<"\n", "\n", "t", "\n", "Action:", " ", "PerplexitySonar",
                          "[", "x", "]", "\n", "\n", "t">>

\* The requests of the current callOpenRouter of run 1 that were sent and
\* have neither failed nor been answered yet.
InFlight ==
  requests[1] - BagCardinality(failures[1]) - (IF CallReturned THEN 1 ELSE 0)

\* Every request of the current callOpenRouter failed and no other will be
\* sent.
AllRequestsFailed ==
  /\ calls[1] > 0
  /\ BagCardinality(failures[1]) = requests[1]
  /\ pc[1] # "delay"

\* The Errors callOpenRouter throws for a failed request.
ProviderErrors == {ProviderErrorOf(f) : f \in Statuses \cup {TransportFailure}}

\* C30: whatever the outcomes of the requests (429, 5xx, another status that
\* is not ok, a transport error), one callOpenRouter sends at most
\* MAX_RETRIES + 1 = 4 requests, has at most one of them in flight, and when
\* all of them failed it has thrown to runAgent instead of returning a reply:
\* the catch block of the step decided the outcome of the run.
C30_BoundedSequentialRequests ==
  /\ requests[1] <= MAX_RETRIES + 1
  /\ InFlight \in {0, 1}
  /\ InFlight = 1 <=> pc[1] = "fetch"
  /\ AllRequestsFailed =>
       /\ pc[1] = "done"
       /\ ~CallReturned
       /\ \E err \in ProviderErrors :
            result[1] = FallbackOnError(lastObservation, partialAnswer[1], err)

\* Four requests answered with status 400: the call threw the API error.
C30_Witness ==
  /\ pc[1] = "done"
  /\ calls[1] = 1
  /\ requests[1] = MAX_RETRIES + 1
  /\ failures[1] = SetToBag({400}) (+) SetToBag({400}) (+) SetToBag({400})
                     (+) SetToBag({400})
  /\ result[1] = Thrown(ApiErrorMessage(400))

\* The tool the Action segment of reply k of run 1 names, and the number of
\* replies up to k that name a registered tool.
ToolOfReply(k) == FindTool(Trim(ActionMatch(replies[1][k]).g1))
InvocationsUpTo(k) == Cardinality({j \in 1..k : ToolOfReply(j).found})

\* The observation of step k: what the tool run for reply k returned, the
\* message of the Error it threw, or the not-found text.
ObservationOfStep(k) ==
  IF ToolOfReply(k).found
  THEN LET out == toolResults[1][InvocationsUpTo(k)]
       IN IF out.kind = "return" THEN out.value ELSE <<"Error: ">> \o out.value
  ELSE <<"Tool \"">> \o Trim(ActionMatch(replies[1][k]).g1) \o <<"\" not found">>

\* The transcript is the two opening messages and then, step by step, the
\* reply of the step and its observation.
TranscriptInOrder ==
  /\ Len(messages[1]) = 2 + 2 * Len(replies[1])
  /\ messages[1][1].role = "system"
  /\ messages[1][2].role = "user"
  /\ \A k \in 1..Len(replies[1]) :
       /\ messages[1][2 * k + 1] = [role |-> "assistant", content |-> replies[1][k]]
       /\ messages[1][2 * k + 2] =
            [role |-> "system",
             content |-> <<"Observation: ">> \o ObservationOfStep(k)]

\* C31: the steps of a run are strictly sequential: while a completion call
\* is under way (a request in flight or a retry delay) every tool invocation
\* of the earlier steps has finished, and the transcript sent holds, in
\* order, the replies and the observations of all earlier steps.
C31_StepsAreSequential ==
  pc[1] \in {"fetch", "delay"} =>
    /\ Len(toolResults[1]) = Len(toolCalls[1])
    /\ InvocationsUpTo(Len(replies[1])) = Len(toolCalls[1])
    /\ TranscriptInOrder

\* The third completion call is under way after a tool that returned and a
\* tool that threw.
C31_Witness ==
  /\ pc[1] = "fetch"
  /\ Len(replies[1]) = 2
  /\ toolResults[1] = <<Returned(<<"4", "2">>), Thrown(<<"boom">>)>>
  /\ messages[1][4].content = <<"Observation: ", "4", "2">>
  /\ messages[1][6].content = <<"Observation: ", "Error: ", "boom">>

\* The transcript of run 1 is the system prompt, the user query and then n
\* pairs of an assistant reply and an Observation: message.
PairsAfterOpening(n) ==
  /\ Len(messages[1]) = 2 + 2 * n
  /\ messages[1][1] = [role |-> "system", content |-> SystemPrompt]
  /\ messages[1][2].role = "user"
  /\ \A k \in 1..n :
       /\ messages[1][2 * k + 1].role = "assistant"
       /\ messages[1][2 * k + 2].role = "system"
       /\ Head(messages[1][2 * k + 2].content) = "Observation: "

\* The Action dispatches of run 1 so far: tools run or being run, and unknown
\* tool names answered with the not-found observation.
Dispatches ==
  Len(toolCalls[1])
    + Cardinality({k \in 1..Len(replies[1]) :
                     /\ ActionMatch(replies[1][k]).found
                     /\ ~ToolOfReply(k).found
                     /\ 2 * k + 2 <= Len(messages[1])
                     /\ Head(messages[1][2 * k + 2].content) = "Observation: "})

\* C33: every step that does not end the run dispatches exactly one Action:
\* while the completion call of step k (from 0) is under way the transcript
\* is the two opening messages and k pairs of reply and observation, k
\* Actions were dispatched, and a run that reached the step limit dispatched
\* exactly MAX_STEPS Actions.
C33_OneDispatchPerStep ==
  /\ pc[1] \in {"fetch", "delay"} =>
       /\ PairsAfterOpening(step[1])
       /\ Len(replies[1]) = step[1]
       /\ Dispatches = step[1]
  /\ (pc[1] = "done" /\ step[1] = MAX_STEPS) =>
       /\ PairsAfterOpening(MAX_STEPS)
       /\ Dispatches = MAX_STEPS

\* The step limit was reached after ten unknown tool names.
C33_Witness ==
  /\ pc[1] = "done"
  /\ step[1] = MAX_STEPS
  /\ Len(messages[1]) = 2 + 2 * MAX_STEPS
  /\ toolCalls[1] = << >>
  /\ Dispatches = MAX_STEPS

\* C34: every value runAgent returns (the parsed answer, a fallback answer,
\* the raw reply) is a non-empty string, and runAgent throws only when it has
\* nothing to return: lastObservation and partialAnswer are both empty.
C34_ReturnsAreNonEmpty ==
  pc[1] = "done" =>
    /\ result[1].kind \in {"return", "throw"}
    /\ result[1].kind = "return" => Len(result[1].value) > 0
    /\ result[1].kind = "throw" =>
         Len(lastObservation) = 0 /\ Len(partialAnswer[1]) = 0

\* A lone "Answer:" marker without fallback text: the raw reply is returned.
C34_Witness ==
  /\ pc[1] = "done"
  /\ replies[1] = <<<<"Answer:">>>>
  /\ result[1] = Returned(<<"Answer:">>)

\* Some tool invocation of run 1 has returned a non-empty result.
ToolReturnedText ==
  \E i \in 1..Len(toolResults[1]) :
     toolResults[1][i].kind = "return" /\ Len(toolResults[1][i].value) > 0

\* C35: once a tool invocation of a sequential run has returned a non-empty
\* result the run never ends by throwing: whatever follows, it ends with a
\* parsed answer or a fallback answer.
C35_NoThrowAfterToolResult ==
  (pc[1] = "done" /\ ToolReturnedText) => result[1].kind = "return"

\* Nine tool results "42", then an empty one in the last step: the run threw
\* the step-limit error.
C35_Witness ==
  /\ pc[1] = "done"
  /\ step[1] = MAX_STEPS
  /\ Len(toolResults[1]) = MAX_STEPS
  /\ toolResults[1][1] = Returned(<<"4", "2">>)
  /\ toolResults[1][MAX_STEPS] = Returned(EmptyStr)
  /\ result[1] = Thrown(StepLimitMessage)

\* ===== Claims about the transcript =====
Growth == Len(messages'[1]) - Len(messages[1])
RunGoesOn == pc[1] # "idle"

\* The messages of this step are appended, and a second message of a step is
\* the observation of a tool dispatch.
AppendsOnly ==
  /\ IsPrefix(messages[1], messages'[1])
  /\ Growth = 2 => /\ ReplyArrives
                   /\ ActionMatch(NewReply).found
                   /\ messages'[1][Len(messages'[1])].role = "system"

\* C17 as stated: the transcript of a run changes by appending only, every
\* completion call that returns adds exactly one message (its reply), and a
\* tool dispatch adds at most one more.
C17_OneMessagePerCompletion ==
  [][RunGoesOn =>
       /\ AppendsOnly
       /\ ReplyArrives => /\ Growth \in {1, 2}
                          /\ messages'[1][Len(messages[1]) + 1] =
                               [role |-> "assistant", content |-> NewReply]
       /\ (ToolFinishes /\ ~ReplyArrives) => Growth = 1
       /\ (~ToolFinishes /\ ~ReplyArrives) => Growth = 0]_vars

\* C17 amended: as above for a reply that is not blank; a blank reply is not
\* appended, and the run ends with it.
C17_OneMessagePerNonBlankCompletion ==
  [][RunGoesOn =>
       /\ AppendsOnly
       /\ (ReplyArrives /\ ~IsEmptyReply(NewReply))
            => /\ Growth \in {1, 2}
               /\ messages'[1][Len(messages[1]) + 1] =
                    [role |-> "assistant", content |-> NewReply]
       /\ (ReplyArrives /\ IsEmptyReply(NewReply))
            => (Growth = 0 /\ pc'[1] = "done")
       /\ (ToolFinishes /\ ~ReplyArrives) => Growth = 1
       /\ (~ToolFinishes /\ ~ReplyArrives) => Growth = 0]_vars

\* A blank reply has arrived after a tool dispatch: the transcript holds the
\* two first messages, one reply and one observation, and not the blank reply.
C17_Witness ==
  /\ Len(replies[1]) = 2
  /\ IsEmptyReply(replies[1][2])
  /\ Len(toolResults[1]) = 1
  /\ Len(messages[1]) = 4
  /\ pc[1] = "done"

\* ===== Claims about the HTTP server =====
RequestReceived == handler # "idle"
RunAgentNotInvoked == pc[1] = "idle"
ExactBearer(key) == Header(<<"Bearer ">> \o key)
IsNonEmptyString(value) == value.type = "string" /\ value.text # EmptyStr
IsObject(body) == body.json = "object"

\* C14: with SERVER_API_KEY configured, a request of any method whose
\* Authorization header is not exactly "Bearer <SERVER_API_KEY>" is answered
\* with status 401 and runAgent is not invoked; with no SERVER_API_KEY
\* configured no request is answered with 401.
C14_ApiKeyGate ==
  RequestReceived =>
    /\ (serverApiKey # EmptyStr /\ request.auth # ExactBearer(serverApiKey))
         => (handler = "done" /\ response.status = 401 /\ RunAgentNotInvoked)
    /\ serverApiKey = EmptyStr => response.status # 401

C14_Witness ==
  /\ serverApiKey = <<"k">>
  /\ request.method = "GET"
  /\ request.auth = Header(<<"k">>)
  /\ response = UnauthorizedResponse
  /\ RunAgentNotInvoked

\* The body carries a query in the words of the interface: a non-empty string
\* query, or a non-empty string question when query is null or absent.
CarriesQuery(body) ==
  /\ IsObject(body)
  /\ \/ IsNonEmptyString(body.query)
     \/ body.query.type \in {"null", "undefined"} /\ IsNonEmptyString(body.question)

\* C15: an authorised request with a method other than GET or POST gets 405
\* whatever its body; an authorised POST whose body is not JSON gets 400
\* "Invalid JSON body"; an authorised POST whose JSON carries no query gets
\* 400; runAgent is invoked in none of these cases.
C15_MethodThenBody ==
  (RequestReceived /\ Authorized(serverApiKey, request.auth)) =>
    /\ request.method \notin {"GET", "POST"}
         => (handler = "done" /\ response.status = 405 /\ RunAgentNotInvoked)
    /\ (request.method = "POST" /\ request.body = NotJson)
         => (RunAgentNotInvoked /\ (handler = "done" => response = InvalidJsonResponse))
    /\ (request.method = "POST" /\ request.body # NotJson /\ ~CarriesQuery(request.body))
         => (RunAgentNotInvoked /\ (handler = "done" => response.status = 400))

C15_Witness ==
  /\ request.method = "POST"
  /\ serverApiKey = <<"k">>
  /\ request.auth = ExactBearer(<<"k">>)
  /\ request.body = JsonObject(JString(EmptyStr), JString(<<"2+2?">>))
  /\ response = MissingQueryResponse
  /\ RunAgentNotInvoked

\* C16: for an authorised POST that carries a query, runAgent is run once with
\* that query; a returned text gives status 200 with {query, answer}, a thrown
\* error gives status 500 with {error: message}, and the response holds
\* nothing else.
C16_RunResponse ==
  (/\ handler = "done"
   /\ Authorized(serverApiKey, request.auth)
   /\ request.method = "POST"
   /\ CarriesQuery(request.body)) =>
    LET query == IF IsNonEmptyString(request.body.query)
                 THEN request.body.query.text ELSE request.body.question.text
    IN /\ pc[1] = "done"
       /\ messages[1][2] = [role |-> "user", content |-> query]
       /\ result[1].kind = "return"
            => response = Response(200, [query |-> query, answer |-> result[1].value])
       /\ result[1].kind = "throw"
            => response = Response(500, [error |-> result[1].value])

C16_Witness ==
  /\ handler = "done"
  /\ request.method = "POST"
  /\ request.body = JsonObject(JNull, JString(<<"2+2?">>))
  /\ result[1].kind = "throw"
  /\ response = Response(500, [error |-> StepLimitMessage])

\* ===== Claims about ResearchStorage =====
\* The call caller 1 has made last and its outcome, once it has ended.
NoCall == [op |-> "none", query |-> EmptyStr, id |-> "", kind |-> "none",
           error |-> "", value |-> << >>]
Call(op, query, id, kind, error, value) ==
  [op |-> op, query |-> query, id |-> id, kind |-> kind, error |-> error,
   value |-> value]
storageCall ==
  IF callers[1].pc # "done" THEN NoCall
  ELSE Call(callers[1].op, callers[1].query, callers[1].id, callers[1].kind,
            callers[1].error, callers[1].value)
\* No call is under way.
Quiescent == \A c \in Callers : callers[c].pc \in {"idle", "done"}

\* The entries storeResearch has written: one topic file each.
StoredEntries == {disk.topics[i].metadata : i \in 1..Len(disk.topics)}
HasEdge(source, target) ==
  \E i \in 1..Len(graph.edges) :
    graph.edges[i].source = source /\ graph.edges[i].target = target

\* C18: after any sequence of storeResearch calls (no call under way), every
\* stored entry is in
\* index.entries with its query, each of its topics lists its id in
\* index.keywords, and the graph has its research node, a node for each of its
\* topics and an edge from the research node to each topic node.
C18_IndexAndGraphCoverStoredEntries ==
  Quiescent =>
    \A m \in StoredEntries :
      /\ HasEntry(index, m.id)
      /\ EntryOf(index, m.id).query = m.query
      /\ ResearchNode(m.id) \in DOMAIN graph.nodes
      /\ \A t \in SetOf(m.topics) :
           /\ t \in DOMAIN index.keywords
           /\ m.id \in SetOf(index.keywords[t])
           /\ TopicNode(t) \in DOMAIN graph.nodes
           /\ HasEdge(ResearchNode(m.id), TopicNode(t))

\* storeResearch has thrown a TypeError after it put the entry in the index.
C18_Witness ==
  /\ storageCall.op = "store"
  /\ storageCall.kind = "throw"
  /\ storageCall.error = "TypeError"
  /\ HasEntry(index, storageCall.id)
  /\ ResearchNode(storageCall.id) \notin DOMAIN graph.nodes

\* The stored entries whose similarity to the query is at least the threshold.
SimilarStored(query, entries) ==
  {m \in entries : AtLeast(calculateSimilarity(query, m.query), similarityThreshold)}

\* The ids of the entries a storeResearch call is storing now, the ids of
\* those whose call has thrown, and the entries whose call has returned.
BeingStored ==
  {callers[c].id : c \in {d \in Callers : callers[d].op = "store"
                                          /\ callers[d].pc # "done"}}
StoreThrew ==
  {callers[c].id : c \in {d \in Callers : callers[d].op = "store"
                                          /\ callers[d].pc = "done"
                                          /\ callers[d].kind = "throw"}}
StoredAndReturned ==
  {m \in StoredEntries : m.id \notin BeingStored \cup StoreThrew}

\* C19: findSimilarResearch(query) returns each stored entry whose similarity
\* to the query is at least similarityThreshold once, returns no other entry,
\* and returns them by non-increasing similarity.  An entry whose
\* storeResearch call is under way or has thrown may be returned or not.
C19_FindSimilarIsExactAndRanked ==
  [][\A c \in Callers :
       (/\ callers[c].op = "findSimilar"
        /\ callers[c].pc = "afterInit"
        /\ callers'[c].pc = "done") =>
         LET found == callers'[c].value
             sim(i) == calculateSimilarity(callers[c].query, found[i].query)
         IN /\ SimilarStored(callers[c].query, StoredAndReturned) \subseteq SetOf(found)
            /\ SetOf(found) \subseteq SimilarStored(callers[c].query, StoredEntries)
            /\ Len(found) = Cardinality(SetOf(found))
            /\ \A i, j \in 1..Len(found) : i < j => ~Greater(sim(j), sim(i))]_vars

\* storeResearch(q) of caller 1 has returned on the first instance, with no
\* failure of a file operation, and findSimilarResearch(q) of caller 2, which
\* was called while initialize() was under way, is about to return nothing:
\* the initialize() it awaited has replaced the index in memory after the
\* entry was put in.
C19_Witness ==
  /\ instances = 1
  /\ ioFailures = 0
  /\ callers[1].pc = "done"
  /\ callers[1].op = "store"
  /\ callers[1].kind = "return"
  /\ TopicFile(callers[1].id).exists
  /\ callers[2].pc = "afterInit"
  /\ callers[2].op = "findSimilar"
  /\ callers[2].query = callers[1].query
  /\ findSimilarResearch(index, similarityThreshold, callers[2].query) = << >>

\* C20: the related list of every stored entry holds exactly the ids of the
\* entries stored before it whose similarity to its query is at least
\* similarityThreshold, and getRelatedResearch(id) returns exactly the
\* metadata of those entries.  An entry whose storeResearch call is under way
\* or has thrown may be among them or not.
C20_RelatedAreEarlierSimilarEntries ==
  /\ [](\A i \in 1..Len(disk.topics) :
          LET m == disk.topics[i].metadata
              before == {disk.topics[j].metadata : j \in 1..(i - 1)}
          IN m \in StoredAndReturned =>
               /\ {e.id : e \in SimilarStored(m.query, before \cap StoredAndReturned)}
                    \subseteq SetOf(m.related)
               /\ SetOf(m.related) \subseteq {e.id : e \in SimilarStored(m.query, before)}
               /\ Len(m.related) = Cardinality(SetOf(m.related)))
  /\ [][\A c \in Callers :
          (/\ callers[c].op = "getRelated"
           /\ callers[c].pc = "afterInit"
           /\ callers'[c].pc = "done"
           /\ \E m \in StoredAndReturned : m.id = callers[c].id) =>
            LET found == callers'[c].value
                m == TopicFile(callers[c].id).data.metadata
            IN /\ {e \in StoredAndReturned : e.id \in SetOf(m.related)}
                    \subseteq SetOf(found)
               /\ SetOf(found) \subseteq
                    {e \in StoredEntries : e.id \in SetOf(m.related)}
               /\ Len(found) = Cardinality(SetOf(found))]_vars

\* Two storeResearch calls with the same query were made on the first
\* instance without waiting for the first, no file operation failed, and both
\* have returned: each entry has an empty related list.
C20_Witness ==
  /\ instances = 1
  /\ ioFailures = 0
  /\ \A c \in Callers :
       /\ callers[c].pc = "done"
       /\ callers[c].op = "store"
       /\ callers[c].kind = "return"
       /\ callers[c].value[1].related = << >>
  /\ callers[1].query = callers[2].query
  /\ Len(disk.topics) = 2

C22_InitializeIsIdempotent ==
  /\ [](\A c \in Callers :
          (/\ callers[c].pc = "done"
           /\ callers[c].op = "initialize"
           /\ callers[c].kind = "return") =>
            /\ initialized
            /\ disk.indexFile.exists /\ disk.graphFile.exists
            /\ DOMAIN index = {"entries", "keywords"}
            /\ DOMAIN graph = {"nodes", "edges"})
  /\ [][\A c \in Callers :
          (/\ initialized
           /\ callers[c].pc \in {"idle", "done"}
           /\ callers'[c] # callers[c]
           /\ callers'[c].op = "initialize") =>
            /\ callers'[c].pc = "done"
            /\ callers'[c].kind = "return"
            /\ index' = index /\ graph' = graph /\ disk' = disk]_vars

\* initialize() of the second instance has loaded the index and the graph
\* that the first instance saved with one entry, and an initialize() called
\* by the other caller after that has returned.
C22_Witness ==
  /\ instances = 2
  /\ initialized
  /\ \A c \in Callers :
       /\ callers[c].pc = "done"
       /\ callers[c].op = "initialize"
       /\ callers[c].kind = "return"
  /\ Len(index.entries) = 1
  /\ disk.indexFile = File(index)
  /\ disk.graphFile = File(graph)
  /\ ioFailures = 0

\* ===== Claims about calculateSimilarity =====
\* C21: calculateSimilarity(q1, q2) is |K1 \cap K2| / |K1 \cup K2| for the
\* keyword sets K1, K2 of the two queries and 0 when one of them is empty; it
\* is symmetric, lies between 0 and 1, and is 1 for two identical queries with
\* a keyword.
C21_SimilarityIsJaccard ==
  similarityCall.called =>
    LET K1 == SetOf(extractKeywords(similarityCall.query1))
        K2 == SetOf(extractKeywords(similarityCall.query2))
        value == similarityCall.value
        swapped == calculateSimilarity(similarityCall.query2, similarityCall.query1)
    IN /\ value.den > 0
       /\ IF K1 = {} \/ K2 = {} THEN value.num = 0
          ELSE value.num * Cardinality(K1 \cup K2) = Cardinality(K1 \cap K2) * value.den
       /\ value.num * swapped.den = swapped.num * value.den
       /\ 0 <= value.num /\ value.num <= value.den
       /\ (similarityCall.query1 = similarityCall.query2 /\ K1 # {})
            => value.num = value.den

\* Two different texts that share one keyword of three: the similarity is 1/3.
C21_Witness ==
  /\ similarityCall.called
  /\ similarityCall.query1 = <<"capital", "France?">>
  /\ similarityCall.query2 = <<"Capital", "Paris">>
  /\ similarityCall.value = Quotient(1, 3)

\* ===== Claims about the CSS selector finder =====
\* What run 1 of the selector finder leaves its loop with: what runAgent
\* returns unless browser.close() fails in the finally block.
FinderOutcome ==
  IF finder[1].pending.kind # "none" THEN finder[1].pending ELSE finder[1].result
FinderLeft == finder[1].pc \in {"closing", "done"}

\* The run left the loop by returning the non-empty Answer of its last reply.
FinderEndedByAnswer ==
  LET msgs == finder[1].messages
  IN /\ Len(msgs) > 2
     /\ msgs[Len(msgs)].role = "assistant"
     /\ HasNonEmptyAnswer(msgs[Len(msgs)].content)

\* C36: runAgent of the selector finder never throws for a failure of a step:
\* when it leaves the loop without a parsed answer (empty completion, provider
\* error, unparseable reply, step limit) it returns the observation fallback,
\* else the partial-answer fallback, else the built-in default answer for its
\* query; and it calls closeBrowser once on every exit path, before it
\* returns.  The one error runAgent can end with is that of a browser.close()
\* that fails inside closeBrowser.
C36_FinderReturnsAndCloses ==
  /\ FinderOutcome.kind # "throw"
  /\ finder[1].result.kind = "throw" => finder[1].result = Thrown(CloseMessage)
  /\ finder[1].closeBrowserCalls = (IF FinderLeft THEN 1 ELSE 0)
  /\ FinderLeft =>
       /\ FinderOutcome.kind = "return"
       /\ Len(FinderOutcome.value) > 0
       /\ ~FinderEndedByAnswer =>
            FinderOutcome.value =
              IF Len(finder[1].lastObservation) > 0
              THEN FinderObservationPrefix \o finder[1].lastObservation
              ELSE IF Len(finder[1].partialAnswer) > 0
              THEN FinderPartialPrefix \o finder[1].partialAnswer
              ELSE DefaultFallbackAnswer(finder[1].messages[2].content)
  /\ (finder[1].pc = "closing" /\ browser # 0) => browsers[browser] = "closed"
  /\ finder[1].pc = "done" =>
       /\ finder[1].result.kind = "return" => finder[1].result = FinderOutcome
       /\ finder[1].result.kind = "return" => browser = 0

\* Every one of the ten replies asked for a tool that does not exist: the
\* step limit was reached with nothing observed by a tool and no thought, and
\* the run returned the default answer that names the URL of the query, after
\* one call of closeBrowser.
C36_Witness ==
  /\ finder[1].pc = "done"
  /\ finder[1].step = FinderMaxSteps
  /\ Len(finder[1].messages) = 2 + 2 * FinderMaxSteps
  /\ finder[1].messages[Len(finder[1].messages)] =
       ObservationMessage(<<"Tool \"", "WebSearch", "\" not found">>)
  /\ finder[1].lastObservation = EmptyStr
  /\ finder[1].partialAnswer = EmptyStr
  /\ finder[1].closeBrowserCalls = 1
  /\ finder[1].result =
       Returned(<<"<genericSelectors>",
                  "You may need to adjust them based on the specific ",
                  "structure of ", "http://example.com", "/p", ".">>)

\* C32: a browser handed out by getBrowser to a tool invocation stays open
\* until that invocation has finished, for every interleaving of concurrent
\* runs: no run's closeBrowser closes it while the tool of another run is
\* still using it.
C32_BrowserOpenWhileInUse ==
  \A r \in Runs :
    finder[r].pc = "page" => browsers[finder[r].held] = "open"

\* Run 2 has left its loop and closed the shared browser while the tool of
\* run 1 still holds it.
C32_Witness ==
  /\ finder[1].pc = "page"
  /\ browsers[finder[1].held] = "closed"
  /\ finder[2].pc \in {"closing", "done"}
  /\ finder[2].closeBrowserCalls = 1

\* Browsers that were launched and are still open.
OpenBrowsers == {b \in 1..Len(browsers) : browsers[b] = "open"}
\* Runs whose getBrowser is waiting for puppeteer.launch.
Launching == {r \in Runs : finder[r].pc \in {"launch", "launch2"}}

\* C37: getBrowser keeps a single browser: at most one launch is under way
\* while the module variable browser is unset, and every launched browser
\* that is still open is the one the variable refers to, so that closeBrowser
\* closes it later.
C37_SingleBrowser ==
  /\ Cardinality(Launching) <= 1
  /\ \A b \in OpenBrowsers : browser = b

\* Both runs have ended and called closeBrowser, two browsers were launched,
\* and one of them is still open with the variable reset.
C37_Witness ==
  /\ \A r \in Runs : finder[r].pc = "done" /\ finder[r].closeBrowserCalls = 1
  /\ Len(browsers) = 2
  /\ browser = 0
  /\ OpenBrowsers # {}

\* ===== Claims about the ScrapeURL tool =====
\* C39: every browser launched by ScrapeURL is closed before run returns, on
\* every path (success, navigation or selector failure, failure while the
\* page is configured), and run never throws: every failure is returned as
\* an Error: text.
C39_ScrapeClosesEveryBrowser ==
  scrape.pc = "done" =>
    /\ scrape.result.kind = "return"
    /\ \A b \in 1..Len(scrape.browsers) : scrape.browsers[b] = "closed"

\* browser.newPage rejected in the first call: run has returned the error
\* text and the browser it launched is still open.
C39_Witness ==
  /\ scrape.pc = "done"
  /\ scrape.calls = 1
  /\ scrape.result = Returned(<<"Error: ", "newPage", " failed">>)
  /\ scrape.browsers = <<"open">>

====
